---------------------------- MODULE Spec2Model ----------------------------
(***************************************************************************)
(* Model of the Orbiter website worker (src/src/index.ts): the fetch       *)
(* handler that resolves a request path to an object of a content-         *)
(* addressed snapshot, applies the tenant's redirect rules, rewrites the    *)
(* links of HTML documents and answers byte-range requests for media.      *)
(*                                                                         *)
(* JavaScript strings are sequences of one-character strings, so that      *)
(* startsWith, includes, slice, the regular expressions and parseInt are   *)
(* computed character by character as the code computes them.  An absent   *)
(* header or query parameter is the empty sequence: every place the code   *)
(* reads one tests it for truthiness, which null and "" both fail.         *)
(***************************************************************************)
EXTENDS Integers, Sequences, FiniteSets

(***************************************************************************)
(* String primitives of the JavaScript runtime.                            *)
(***************************************************************************)
StartsWith(s, p) == Len(s) >= Len(p) /\ SubSeq(s, 1, Len(p)) = p

EndsWith(s, p) == Len(s) >= Len(p) /\ SubSeq(s, Len(s) - Len(p) + 1, Len(s)) = p

StartsWithAt(s, p, i) ==
    i + Len(p) - 1 <= Len(s) /\ SubSeq(s, i, i + Len(p) - 1) = p

Includes(s, p) == \E i \in 1..(Len(s) - Len(p) + 1) : StartsWithAt(s, p, i)

\* String.indexOf, 1-based; 0 when p does not occur (JavaScript's -1).
IndexOf(s, p) ==
    IF Includes(s, p)
    THEN CHOOSE i \in 1..(Len(s) - Len(p) + 1) :
            /\ StartsWithAt(s, p, i)
            /\ \A j \in 1..(i - 1) : ~StartsWithAt(s, p, j)
    ELSE 0

\* String.lastIndexOf, 1-based; 0 when p does not occur.
LastIndexOf(s, p) ==
    IF Includes(s, p)
    THEN CHOOSE i \in 1..(Len(s) - Len(p) + 1) :
            /\ StartsWithAt(s, p, i)
            /\ \A j \in (i + 1)..(Len(s) - Len(p) + 1) : ~StartsWithAt(s, p, j)
    ELSE 0

\* s.slice(n) for the 0-based index n.
SliceFrom(s, n) == SubSeq(s, n + 1, Len(s))

\* s.substring(0, n).
Substring0(s, n) == SubSeq(s, 1, n)

UpperChars == <<"A","B","C","D","E","F","G","H","I","J","K","L","M","N","O","P","Q","R","S","T","U","V","W","X","Y","Z">>
LowerChars == <<"a","b","c","d","e","f","g","h","i","j","k","l","m","n","o","p","q","r","s","t","u","v","w","x","y","z">>

LowerChar(c) ==
    IF \E k \in 1..Len(UpperChars) : UpperChars[k] = c
    THEN LowerChars[CHOOSE k \in 1..Len(UpperChars) : UpperChars[k] = c]
    ELSE c

ToLowerCase(s) == [i \in 1..Len(s) |-> LowerChar(s[i])]

DigitChars == <<"0","1","2","3","4","5","6","7","8","9">>

IsDigit(c) == \E k \in 1..Len(DigitChars) : DigitChars[k] = c

DigitValue(c) == (CHOOSE k \in 1..Len(DigitChars) : DigitChars[k] = c) - 1

\* parseInt(s, 10) of a string of decimal digits.
RECURSIVE ParseInt(_)
ParseInt(s) ==
    IF Len(s) = 0 THEN 0
    ELSE 10 * ParseInt(SubSeq(s, 1, Len(s) - 1)) + DigitValue(s[Len(s)])

\* Number.prototype.toString of a natural number.
RECURSIVE NumToString(_)
NumToString(n) ==
    IF n < 10 THEN <<DigitChars[n + 1]>>
    ELSE NumToString(n \div 10) \o <<DigitChars[(n % 10) + 1]>>

\* The index of the first character at or after i that is not a digit.
RECURSIVE DigitsEnd(_, _)
DigitsEnd(s, i) ==
    IF i <= Len(s) /\ IsDigit(s[i]) THEN DigitsEnd(s, i + 1) ELSE i

\* new URL(s) for an http(s) URL: the parser throws without a scheme or a
\* host; pathname is "/" when empty, search and hash are empty when they
\* hold only their delimiter.
sHttpScheme == <<"h","t","t","p",":","/","/">>
sHttpsScheme == <<"h","t","t","p","s",":","/","/">>

UrlRest(s) ==
    IF StartsWith(s, sHttpScheme) THEN SliceFrom(s, Len(sHttpScheme))
    ELSE IF StartsWith(s, sHttpsScheme) THEN SliceFrom(s, Len(sHttpsScheme))
    ELSE <<>>

\* Index of the first character of s among the characters cs, Len(s)+1 if none.
FirstOf(s, cs) ==
    IF \E i \in 1..Len(s) : s[i] \in cs
    THEN CHOOSE i \in 1..Len(s) :
            s[i] \in cs /\ \A j \in 1..(i - 1) : s[j] \notin cs
    ELSE Len(s) + 1

ParseUrl(s) ==
    LET rest == UrlRest(s)
        hostEnd == FirstOf(rest, {"/", "?", "#"})
        afterHost == SubSeq(rest, hostEnd, Len(rest))
        pathEnd == FirstOf(afterHost, {"?", "#"})
        path == SubSeq(afterHost, 1, pathEnd - 1)
        afterPath == SubSeq(afterHost, pathEnd, Len(afterHost))
        queryEnd == FirstOf(afterPath, {"#"})
        query == SubSeq(afterPath, 1, queryEnd - 1)
        frag == SubSeq(afterPath, queryEnd, Len(afterPath))
    IN  [ok |-> hostEnd > 1,
         host |-> SubSeq(rest, 1, hostEnd - 1),
         pathname |-> IF path = <<>> THEN <<"/">> ELSE path,
         search |-> IF Len(query) <= 1 THEN <<>> ELSE query,
         hash |-> IF Len(frag) <= 1 THEN <<>> ELSE frag]

(***************************************************************************)
(* Redirect rules (interface Redirect).  A rule read from the REDIRECTS    *)
(* namespace is JSON: hasDestination is FALSE when the object carries no   *)
(* destination, status 0 stands for an unset (or zero) status.             *)
(***************************************************************************)
sSlash == <<"/">>
sUndefined == <<"u","n","d","e","f","i","n","e","d">>
sNotFoundSource == <<"4","0","4">>

Rule(src, hasDst, dst, st, frc) ==
    [source |-> src, hasDestination |-> hasDst, destination |-> dst,
     status |-> st, force |-> frc]

\* Template-literal rendering of a possibly undefined destination.
DestinationText(redirect) ==
    IF redirect.hasDestination THEN redirect.destination ELSE sUndefined

IsAbsoluteHttp(s) == StartsWith(s, sHttpScheme) \/ StartsWith(s, sHttpsScheme)

SourcePath(redirect) ==
    IF StartsWith(redirect.source, sSlash)
    THEN redirect.source
    ELSE sSlash \o redirect.source

DestinationPath(redirect) ==
    IF redirect.hasDestination /\ IsAbsoluteHttp(redirect.destination)
    THEN LET u == ParseUrl(redirect.destination)
         IN  IF u.ok THEN u.pathname \o u.search \o u.hash
             ELSE redirect.destination
    ELSE IF redirect.hasDestination /\ StartsWith(redirect.destination, sSlash)
    THEN redirect.destination
    ELSE sSlash \o DestinationText(redirect)

\* A loop without the guard.
NeverSelfRedirect(redirect, currentPath) == FALSE

\* The self-redirect guard: the rule is passed over with `continue`.
SelfRedirect(redirect, currentPath) == currentPath = DestinationPath(redirect)

\* A match that ignores force.
SourceMatchesExactly(redirect, currentPath) == currentPath = SourcePath(redirect)

SourceMatches(redirect, currentPath) ==
    \/ currentPath = SourcePath(redirect)
    \/ redirect.force /\ StartsWith(currentPath, SourcePath(redirect))

RuleFires(redirect, currentPath) ==
    ~SelfRedirect(redirect, currentPath) /\ SourceMatches(redirect, currentPath)

RedirectLocation(redirect, protocol, originalHost) ==
    IF IsAbsoluteHttp(redirect.destination)
    THEN redirect.destination
    ELSE protocol \o <<"/","/">> \o originalHost
            \o (IF StartsWith(redirect.destination, sSlash) THEN <<>> ELSE sSlash)
            \o redirect.destination

RedirectStatusDefault == 301

\* A response that always carries the default status.
RedirectStatusIgnored(redirect) == RedirectStatusDefault

RedirectStatus(redirect) ==
    IF redirect.status # 0 THEN redirect.status ELSE RedirectStatusDefault

\* A loop in which a later rule overrides an earlier one.
LastFiring(redirectsArray, currentPath, i) ==
    IF \E k \in i..Len(redirectsArray) : RuleFires(redirectsArray[k], currentPath)
    THEN CHOOSE k \in i..Len(redirectsArray) :
            /\ RuleFires(redirectsArray[k], currentPath)
            /\ \A j \in (k + 1)..Len(redirectsArray) :
                  ~RuleFires(redirectsArray[j], currentPath)
    ELSE 0

\* The for-loop over redirectsArray from index i on: the index of the rule
\* that ends the loop, 0 when the loop runs to its end.
RECURSIVE FirstFiring(_, _, _)
FirstFiring(redirectsArray, currentPath, i) ==
    IF i > Len(redirectsArray) THEN 0
    ELSE IF RuleFires(redirectsArray[i], currentPath) THEN i
    ELSE FirstFiring(redirectsArray, currentPath, i + 1)

(***************************************************************************)
(* Path candidates (fetch, lines 957-997).                                 *)
(***************************************************************************)
sDot == <<".">>
sIndexHtml == <<"i","n","d","e","x",".","h","t","m","l">>
sDotHtml == <<".","h","t","m","l">>

\* The directory of the referring page.
RefererDir(refererPath) ==
    IF Includes(refererPath, sDot) /\ ~EndsWith(refererPath, sSlash)
    THEN Substring0(refererPath, LastIndexOf(refererPath, sSlash))
    ELSE IF ~EndsWith(refererPath, sSlash) THEN refererPath \o sSlash
    ELSE refererPath

\* A variant that prefixes the referring directory onto rooted paths too.
CleanPathPrefixed(pathName, hasReferer, refererPath) ==
    LET stripped == IF StartsWith(pathName, sSlash) THEN SliceFrom(pathName, 1)
                    ELSE pathName
        refererDir == RefererDir(refererPath)
        trimmedRefererDir == IF StartsWith(refererDir, sSlash)
                             THEN SliceFrom(refererDir, 1) ELSE refererDir
    IN  IF hasReferer /\ refererPath # sSlash /\ pathName # sSlash
        THEN trimmedRefererDir \o stripped
        ELSE stripped

\* cleanPath: hasReferer says that a Referer header was sent (and parsed),
\* refererPath is the pathname of its URL.
CleanPath(pathName, hasReferer, refererPath) ==
    LET stripped == IF StartsWith(pathName, sSlash) THEN SliceFrom(pathName, 1)
                    ELSE pathName
        refererDir == RefererDir(refererPath)
        trimmedRefererDir == IF StartsWith(refererDir, sSlash)
                             THEN SliceFrom(refererDir, 1) ELSE refererDir
    IN  IF hasReferer /\ refererPath # sSlash /\ pathName # sSlash
           /\ ~StartsWith(pathName, sSlash)
        THEN trimmedRefererDir \o stripped
        ELSE stripped

\* The keys the handler asks the gateway for, in the order it asks.
PathCandidates(pathName, cleanPath) ==
    IF pathName # <<>> /\ pathName # sSlash
    THEN IF ~Includes(cleanPath, sDot)
         THEN <<cleanPath \o sSlash \o sIndexHtml, cleanPath \o sDotHtml>>
         ELSE <<cleanPath>>
    ELSE <<sIndexHtml>>

MediaExtensions ==
    {<<"m","p","4">>, <<"w","e","b","m">>, <<"o","g","g">>, <<"m","o","v">>, <<"a","v","i">>, <<"m","k","v">>, <<"m","p","3">>, <<"w","a","v">>, <<"f","l","a","c">>, <<"a","a","c">>, <<"m","4","a">>}

\* A handler that takes every key for a media file.
IsMediaFileAlways(cleanPath) == TRUE

\* A handler that takes no key for a media file.
IsMediaFileNever(cleanPath) == FALSE

\* cleanPath.match(/\.(mp4|...|m4a)$/i)
IsMediaFile(cleanPath) ==
    \E ext \in MediaExtensions : EndsWith(ToLowerCase(cleanPath), sDot \o ext)

sWellKnown == <<"/",".","w","e","l","l","-","k","n","o","w","n","/">>
sFarcaster == <<"f","a","r","c","a","s","t","e","r",".","j","s","o","n">>
sAdmin == <<"/","a","d","m","i","n","/">>
sApi == <<"/","a","p","i","/">>
sPhp == <<".","p","h","p">>

IsSslChallenge(pathName) ==
    StartsWith(pathName, sWellKnown) /\ ~Includes(pathName, sFarcaster)

IsAdminRequest(pathName) == StartsWith(pathName, sAdmin)

\* A comparison of the extension as the request spells it.
IsBlockedExtensionExact(pathName) == EndsWith(pathName, sPhp)

IsBlockedExtension(pathName) == EndsWith(ToLowerCase(pathName), sPhp)

IsApiPath(pathName) == StartsWith(pathName, sApi)

(***************************************************************************)
(* The byte-range helper (parseRangeHeader).                               *)
(***************************************************************************)
sBytesEq == <<"b","y","t","e","s","=">>
sDash == <<"-">>

\* rangeHeader.match(/bytes=(\d+)-(\d*)/) tried at position i.
RangeMatchAt(rangeHeader, i) ==
    LET d1 == i + Len(sBytesEq)
        e1 == DigitsEnd(rangeHeader, d1)
        e2 == DigitsEnd(rangeHeader, e1 + 1)
    IN  [ok |-> /\ StartsWithAt(rangeHeader, sBytesEq, i)
                /\ e1 > d1
                /\ StartsWithAt(rangeHeader, sDash, e1),
         first |-> SubSeq(rangeHeader, d1, e1 - 1),
         second |-> SubSeq(rangeHeader, e1 + 1, e2 - 1)]

NoRange == [ok |-> FALSE, start |-> 0, end |-> 0]

\* A validation that lets the first byte past the end through.
ParseRangeHeaderPastEnd(rangeHeader, contentLength) ==
    IF ~\E i \in 1..Len(rangeHeader) : RangeMatchAt(rangeHeader, i).ok
    THEN NoRange
    ELSE LET at == CHOOSE i \in 1..Len(rangeHeader) :
                      /\ RangeMatchAt(rangeHeader, i).ok
                      /\ \A j \in 1..(i - 1) : ~RangeMatchAt(rangeHeader, j).ok
             match == RangeMatchAt(rangeHeader, at)
             start == ParseInt(match.first)
             end == IF match.second # <<>> THEN ParseInt(match.second)
                    ELSE contentLength - 1
         IN  IF start > contentLength \/ end > contentLength \/ start > end
             THEN NoRange
             ELSE [ok |-> TRUE, start |-> start, end |-> end]

ParseRangeHeader(rangeHeader, contentLength) ==
    IF ~\E i \in 1..Len(rangeHeader) : RangeMatchAt(rangeHeader, i).ok
    THEN NoRange
    ELSE LET at == CHOOSE i \in 1..Len(rangeHeader) :
                      /\ RangeMatchAt(rangeHeader, i).ok
                      /\ \A j \in 1..(i - 1) : ~RangeMatchAt(rangeHeader, j).ok
             match == RangeMatchAt(rangeHeader, at)
             start == ParseInt(match.first)
             end == IF match.second # <<>> THEN ParseInt(match.second)
                    ELSE contentLength - 1
         IN  IF start >= contentLength \/ end >= contentLength \/ start > end
             THEN NoRange
             ELSE [ok |-> TRUE, start |-> start, end |-> end]

(***************************************************************************)
(* The HTML pass (fetch, lines 1034-1075).                                 *)
(***************************************************************************)
sBaseOpen == <<"<","b","a","s","e"," ">>
sHead == <<"<","h","e","a","d",">">>
sBaseHrefOpen == <<"<","b","a","s","e"," ","h","r","e","f","=","\"">>
sTagClose == <<"\"",">">>
sNewline == <<"\n">>
sVersionParam == <<"?","o","r","b","i","t","e","r","V","e","r","s","i","o","n","C","i","d","=">>
sSrc == <<"s","r","c">>
sHref == <<"h","r","e","f">>
sEq == <<"=">>
Quotes == {"\"", "'"}
SkippedPrefixes == {<<"h","t","t","p">>, <<"/","/">>, <<"d","a","t","a",":">>, <<"#">>, <<"m","a","i","l","t","o",":">>}

CurrentPathContext(pathName) ==
    LET ctx == IF ~EndsWith(pathName, sSlash) /\ ~Includes(pathName, sDot)
               THEN pathName \o sSlash
               ELSE IF Includes(pathName, sDot)
               THEN Substring0(pathName, LastIndexOf(pathName, sSlash))
               ELSE pathName
    IN  IF ctx = sSlash THEN <<>> ELSE ctx

BaseUrl(protocol, originalHost, currentPathContext) ==
    protocol \o <<"/","/">> \o originalHost \o currentPathContext

\* String.replace(pattern, replacement) with a string pattern: the first
\* occurrence only.
ReplaceFirst(text, pattern, replacement) ==
    LET at == IndexOf(text, pattern)
    IN  IF at = 0 THEN text
        ELSE SubSeq(text, 1, at - 1) \o replacement
                \o SubSeq(text, at + Len(pattern), Len(text))

InjectBase(text, baseUrl) ==
    IF ~Includes(text, sBaseOpen)
    THEN IF Includes(text, sHead)
         THEN ReplaceFirst(text, sHead,
                  sHead \o sNewline \o sBaseHrefOpen \o baseUrl \o sTagClose)
         ELSE sBaseHrefOpen \o baseUrl \o sTagClose \o sNewline \o text
    ELSE text

\* /(src|href)=("|')(?!http|\/\/|data:|#|mailto:)([^"']*)("|')/ tried at
\* position i: attr is the attribute name, open the index of the opening
\* quote, close the index of the closing one.
LinkMatchAt(text, i) ==
    LET attr == IF StartsWithAt(text, sSrc, i) THEN sSrc
                ELSE IF StartsWithAt(text, sHref, i) THEN sHref
                ELSE <<>>
        eq == i + Len(attr)
        open == eq + 1
        rest == SubSeq(text, open + 1, Len(text))
        close == open + FirstOf(rest, Quotes)
    IN  [ok |-> /\ attr # <<>>
                /\ StartsWithAt(text, sEq, eq)
                /\ open <= Len(text)
                /\ text[open] \in Quotes
                /\ \A p \in SkippedPrefixes : ~StartsWithAt(text, p, open + 1)
                /\ close <= Len(text),
         attr |-> attr, open |-> open, close |-> close]

\* The replacement callback.
AssetPath(path, currentPathContext) ==
    IF StartsWith(path, sSlash) THEN path ELSE currentPathContext \o path

RewrittenAttribute(attr, quote, path, currentPathContext, versionParam) ==
    attr \o sEq \o <<quote>> \o AssetPath(path, currentPathContext)
        \o versionParam \o <<quote>>

\* modifiedHtml.replace(/.../g, callback) from position i on.
RECURSIVE ReplaceLinks(_, _, _, _)
ReplaceLinks(text, i, currentPathContext, versionParam) ==
    IF i > Len(text) THEN <<>>
    ELSE LET m == LinkMatchAt(text, i)
         IN  IF m.ok
             THEN RewrittenAttribute(m.attr, text[m.open],
                      SubSeq(text, m.open + 1, m.close - 1),
                      currentPathContext, versionParam)
                  \o ReplaceLinks(text, m.close + 1, currentPathContext, versionParam)
             ELSE <<text[i]>>
                  \o ReplaceLinks(text, i + 1, currentPathContext, versionParam)

VersionParam(isUsingVersionCid, versionCid) ==
    IF isUsingVersionCid THEN sVersionParam \o versionCid ELSE <<>>

\* The whole pass over the text of an HTML response.
LinkRewriter(text, pathName, protocol, originalHost, isUsingVersionCid, versionCid) ==
    LET currentPathContext == CurrentPathContext(pathName)
        baseUrl == BaseUrl(protocol, originalHost, currentPathContext)
    IN  ReplaceLinks(InjectBase(text, baseUrl), 1, currentPathContext,
                     VersionParam(isUsingVersionCid, versionCid))

(***************************************************************************)
(* Bounds and input sets.                                                  *)
(***************************************************************************)
MaxPathLen == 3
MaxRules == 2
MaxHops == 2
MaxTrackers == 4

PathAlphabet == {"/", "a", "."}

\* URL.pathname never holds a "." or ".." segment: the parser resolves them.
HasDotSegment(p) ==
    \E i \in 1..Len(p) : \E n \in 1..2 :
        /\ p[i] = "/"
        /\ i + n <= Len(p)
        /\ \A k \in (i + 1)..(i + n) : p[k] = "."
        /\ (i + n = Len(p) \/ p[i + n + 1] = "/")

GeneratedPaths ==
    {p \in UNION {[1..n -> PathAlphabet] : n \in 1..MaxPathLen} :
        p[1] = "/" /\ ~HasDotSegment(p)}

SpecialPaths ==
    {<<"/","a","/","a">>, <<"/","a","/","a",".","a">>, <<"/","x",".","p","h","p">>, <<"/","x",".","P","H","P">>, <<"/","a","d","m","i","n","/","x">>, <<"/","a","p","i","/","x">>, <<"/",".","w","e","l","l","-","k","n","o","w","n","/","x">>,
     <<"/",".","w","e","l","l","-","k","n","o","w","n","/","f","a","r","c","a","s","t","e","r",".","j","s","o","n">>, <<"/","a","d","m","i","n","/","x",".","p","h","p">>,
     <<"/",".","w","e","l","l","-","k","n","o","w","n","/","x",".","p","h","p">>, <<"/",".","w","e","l","l","-","k","n","o","w","n","/","f","a","r","c","a","s","t","e","r",".","j","s","o","n",".","p","h","p">>}

RedirectPaths ==
    {<<"/">>, <<"/","a">>, <<"/","a","a">>, <<"/","a","/">>, <<"/","4","0","4">>, <<"/","o","l","d">>, <<"/","n","e","w">>, <<"/","o","l","d","/","x">>, <<"/","x",".","p","h","p">>, <<"/","a","p","i","/","x">>}

RewritePaths == {<<"/">>, <<"/","a">>, <<"/","a","/">>, <<"/","a",".","a">>, <<"/","a","/","a">>, <<"/","a","/","a",".","a">>}

MediaPaths == {<<"/","v",".","m","p","4">>, <<"/","a","/","V",".","M","P","3">>, <<"/","a",".","o","g","g">>}

Paths == GeneratedPaths \cup SpecialPaths \cup MediaPaths

sHttps == <<"h","t","t","p","s",":">>
sHttp == <<"h","t","t","p",":">>
ReqHost == <<"h">>
ForwardedHost == <<"o">>
NoValue == <<>>

Referers ==
    {NoValue, <<"h","t","t","p","s",":","/","/","h","/">>, <<"h","t","t","p","s",":","/","/","h","/","d","/","p",".","h","t","m","l">>, <<"h","t","t","p","s",":","/","/","h","/","d">>, <<"n","o","p","e">>}

SiteCid == <<"Q","1">>
PinnedCid == <<"Q","2">>
UnknownCid == <<"Q","9">>

\* The CIDs pinata.gateways.containsCID answers true for.
GatewayCids == {SiteCid, PinnedCid}
SiteKey == <<"s","i","t","e">>
Contract == <<"0","x","c">>

\* Redirect rules a tenant can store.
RuleUniverse ==
    {Rule(<<"/","o","l","d">>, TRUE, <<"/","n","e","w">>, 302, FALSE),
     Rule(<<"/","a">>, TRUE, <<"/","a">>, 0, TRUE),
     Rule(<<"a">>, TRUE, <<"h","t","t","p","s",":","/","/","e","/","a","a","?","q">>, 0, FALSE),
     Rule(<<"/">>, TRUE, <<"a","a">>, 307, TRUE),
     Rule(<<"4","0","4">>, TRUE, <<"/","a","a">>, 0, FALSE),
     Rule(<<"/","a">>, FALSE, NoValue, 0, FALSE),
     Rule(<<"/","a">>, TRUE, <<"h","t","t","p",":","/","/">>, 0, FALSE),
     Rule(<<"/","a">>, TRUE, <<"/","a","?","q">>, 0, FALSE)}

RuleLists == UNION {[1..n -> RuleUniverse] : n \in 0..MaxRules}

\* The value stored under the site key in REDIRECTS: nothing, text that is
\* not JSON, or a JSON array of rules.
StoredRules(kind, rules) == [kind |-> kind, rules |-> rules]
NoStoredRules == StoredRules("absent", <<>>)

StoredRuleValues ==
    {NoStoredRules, StoredRules("badjson", <<>>)}
        \cup {StoredRules("json", l) : l \in RuleLists}

\* HTML documents of a snapshot.
DocHeads == {NoValue, <<"<","h","e","a","d",">">>, <<"<","h","e","a","d",">","<","b","a","s","e"," ","h","r","e","f","=","\"","/","\"",">">>}

LinkValues ==
    {NoValue, <<"a">>, <<"a","?","q">>, <<"a","#","f">>, <<"/","a">>, <<"h","t","t","p",":","/","/","e","/","a">>, <<"h","t","t","p","s",":","/","/","e","/","a">>, <<"/","/","e","/","a">>,
     <<"d","a","t","a",":","a">>, <<"h","t","t","p","s",":","/","/","e","/","?","s","r","c","=","'","a","'">>}

DocLinks ==
    {NoValue} \cup {<<"<","a"," ","s","r","c","=","\"">> \o v \o <<"\"",">">> : v \in LinkValues}
        \cup {<<"<","a"," ","h","r","e","f","=","'","a","'",">">>}

Docs == {h \o l : h \in DocHeads, l \in DocLinks}

PlainDoc == <<"<","h","e","a","d",">","<","a"," ","h","r","e","f","=","\"","a","\"",">">>

\* Documents whose head or base tag is not spelled <head> or <base ...>,
\* and a document whose head tag is not at its start.
HeadDocs ==
    {<<"<","H","E","A","D",">","<","a"," ","s","r","c","=","\"","a","\"",">">>, <<"<","h","e","a","d"," ","l","a","n","g","=","\"","e","n","\"",">">>, <<"<","h","e","a","d",">","<","B","A","S","E"," ","h","r","e","f","=","\"","/","\"",">">>,
     <<"<","h","t","m","l",">","<","h","e","a","d",">","<","a"," ","s","r","c","=","\"","a","\"",">">>, <<"<","h","e","a","d","e","r",">">>}

\* Range headers a client can send.
RangeNumbers == {0, 1, 2, 100, 199, 999, 1000, 1010}

RangeHeaders ==
    {sBytesEq \o NumToString(a) \o sDash : a \in RangeNumbers}
        \cup {sBytesEq \o NumToString(a) \o sDash \o NumToString(b) :
                a \in RangeNumbers, b \in RangeNumbers}
        \cup {<<"b","y","t","e","s","=","-","5">>, <<"i","t","e","m","s","=","0","-","1">>, <<"b","y","t","e","s","=","0","0","7","-">>}

\* Content-Length headers of the gateway's answer to the HEAD probe.
ContentLengthHeaders == {NoValue, <<"0">>, <<"1">>, <<"2">>, <<"1","0","0","0">>}

ContentTypeHeaders == {NoValue, <<"t","e","x","t","/","h","t","m","l",";"," ","c","h","a","r","s","e","t","=","u","t","f","-","8">>, <<"t","e","x","t","/","c","s","s">>}

\* Statuses of the gateway: of a candidate object, of the root of the
\* snapshot, of a ranged request.
FetchStatuses == {200, 404}
RootFetchStatuses == {200, 404, 502}
RangeFetchStatuses == {206, 200, 404}

\* A gateway none of whose answers counts as a success.
OkNever(status) == FALSE

Ok(status) == status >= 200 /\ status <= 299

\* What a request meets: the request itself, the registry values of its
\* site, and the text of the object the gateway serves.  Each family varies
\* one part of the input and keeps the rest plain.
World(p, proto, ref, xoh, rng, ver, pl, scid, red, doc) ==
    [pathName |-> p, protocol |-> proto, referrer |-> ref, xOriginalHost |-> xoh,
     rangeHeader |-> rng, versionCid |-> ver, plan |-> pl, siteCid |-> scid,
     redirectsPlain |-> red, storedDoc |-> doc]

PathWorlds ==
    {World(p, sHttps, ref, NoValue, NoValue, NoValue, "free", scid, NoStoredRules, PlainDoc) :
        p \in Paths, ref \in Referers, scid \in {SiteCid, NoValue}}

RedirectWorlds ==
    {World(p, hp[1], NoValue, hp[2], NoValue, NoValue, "pro", SiteCid, red, PlainDoc) :
        p \in RedirectPaths,
        hp \in {<<sHttps, NoValue>>, <<sHttp, ForwardedHost>>},
        red \in StoredRuleValues}
    \cup
    {World(p, sHttps, NoValue, NoValue, NoValue, NoValue, "free", SiteCid,
           StoredRules("json", <<r>>), PlainDoc) :
        p \in RedirectPaths, r \in RuleUniverse}

RewriteWorlds ==
    {World(p, hv[1], NoValue, hv[2], NoValue, hv[3], "free", SiteCid, NoStoredRules, doc) :
        p \in RewritePaths,
        hv \in {<<sHttps, NoValue, NoValue>>, <<sHttp, ForwardedHost, NoValue>>,
                <<sHttps, NoValue, PinnedCid>>},
        doc \in Docs}

RangeWorlds ==
    {World(p, sHttps, NoValue, NoValue, rng, NoValue, "free", SiteCid, NoStoredRules, PlainDoc) :
        p \in MediaPaths \cup {<<"/","a",".","a">>, <<"/","a">>, <<"/">>}, rng \in RangeHeaders}

\* Sites with and without a CID in ORBITER_SITES, asked with and without a
\* version the gateway holds or does not hold.
VersionWorlds ==
    {World(p, sHttps, NoValue, NoValue, NoValue, ver, pr[1], scid, pr[2], PlainDoc) :
        p \in {<<"/">>, <<"/","a">>, <<"/","o","l","d">>, <<"/","a","p","i","/","x">>},
        ver \in {NoValue, PinnedCid, UnknownCid},
        scid \in {NoValue, SiteCid},
        pr \in {<<"free", NoStoredRules>>,
                <<"pro", StoredRules("json", <<Rule(<<"/","o","l","d">>, TRUE, <<"/","n","e","w">>, 302, FALSE)>>)>>}}

\* Ranged media requests of sites that store a page for missing objects.
NotFoundWorlds ==
    {World(<<"/","v",".","m","p","4">>, sHttps, NoValue, NoValue, <<"b","y","t","e","s","=","0","-">>, NoValue, pl, SiteCid,
           StoredRules("json", <<Rule(<<"4","0","4">>, TRUE, <<"/","a","a">>, 0, FALSE)>>), PlainDoc) :
        pl \in {"free", "pro"}}

\* Pages with the documents of HeadDocs.
HeadWorlds ==
    {World(p, sHttps, NoValue, NoValue, NoValue, NoValue, "free", SiteCid, NoStoredRules, doc) :
        p \in {<<"/","a">>, <<"/","a","/","a",".","a">>}, doc \in HeadDocs}

Worlds ==
    PathWorlds \cup RedirectWorlds \cup RewriteWorlds \cup RangeWorlds
        \cup VersionWorlds \cup NotFoundWorlds \cup HeadWorlds

(***************************************************************************)
(* The fetch handler (export default { fetch }), one request at a time.    *)
(***************************************************************************)
VARIABLES
    pathName,        \* reqUrl.pathname
    protocol,        \* reqUrl.protocol
    referrer,        \* the Referer header
    xOriginalHost,   \* the X-Original-Host header
    rangeHeader,     \* the Range header
    versionCid,      \* the orbiterVersionCid query parameter
    hops,            \* the redirects the client followed to make this request
    plan,            \* SITE_PLANS value of the site's organisation
    siteCid,         \* ORBITER_SITES value of the site
    redirectsPlain,  \* REDIRECTS value of the site
    storedDoc,       \* the text of the object the gateway answers with
    pc,              \* where the handler stands
    redirectsArray,  \* the parsed rules
    isUsingVersionCid,
    cid,
    gatewayUrl,
    cleanPath,
    contentLength,   \* handleRangeRequest: the size the HEAD probe reported
    response,        \* the gateway response the handler holds
    fetchLog,        \* every request sent to the gateway, in order
    result,          \* the Response returned to the caller
    trackers,        \* the trackPageView calls in flight for one rate-limit key
    rateLimit        \* RATE_LIMIT value under that key (0 when absent)

vars == <<pathName, protocol, referrer, xOriginalHost, rangeHeader, versionCid,
          hops, plan, siteCid, redirectsPlain, storedDoc, pc, redirectsArray,
          isUsingVersionCid, cid, gatewayUrl, cleanPath, contentLength,
          response, fetchLog, result, trackers, rateLimit>>

request == <<pathName, protocol, referrer, xOriginalHost, rangeHeader, versionCid,
             hops>>
registry == <<plan, siteCid, redirectsPlain, storedDoc>>
analytics == <<trackers, rateLimit>>

sGateway == <<"h","t","t","p","s",":","/","/","g","w","/","i","p","f","s","/">>
sCacheHour == "public, max-age=3600"
sCacheDay == "public, max-age=86400"
sTextPlain == <<"t","e","x","t","/","p","l","a","i","n">>
sTextHtml == <<"t","e","x","t","/","h","t","m","l">>
sOctetStream == <<"a","p","p","l","i","c","a","t","i","o","n","/","o","c","t","e","t","-","s","t","r","e","a","m">>

\* pinata.gateways.convert(cid)
GatewayConvert(c) == sGateway \o c

\* let response; before the first fetch.
NoResponse == [status |-> 0, url |-> NoValue, contentType |-> NoValue]

NoResult ==
    [kind |-> "none", status |-> 0, location |-> NoValue, contentType |-> NoValue,
     cacheControl |-> "", allowOrigin |-> "", acceptRanges |-> "",
     contentRange |-> NoValue, contentLength |-> NoValue,
     orbCid |-> NoValue, orbContract |-> NoValue, rule |-> 0, body |-> NoValue]

\* A handler without the catch block: the failure leaves no response.
ErrorResultUncaught(message) == NoResult

\* The catch block: `Error: ${error}` as text/plain with status 500.
ErrorResult(message) ==
    [NoResult EXCEPT !.kind = "error", !.status = 500,
                     !.contentType = sTextPlain, !.body = <<"E","r","r","o","r",":"," ">> \o message]

\* A request sent to the gateway; via names the place that sent it.
Fetched(via, method, url, range, status) ==
    [via |-> via, method |-> method, url |-> url, range |-> range, status |-> status]

OriginalHost == IF xOriginalHost # NoValue THEN xOriginalHost ELSE ReqHost

\* The trackPageView calls that share one rate-limit key (bucket, site,
\* hashed IP): call h + 1 is made by the request the client sends after
\* following h redirects, the others by requests in flight beside it.
Trackers == 1..MaxTrackers

\* A call: where it stands (idle: not made; get, put: before the RATE_LIMIT
\* read and write of checkRateLimit; post: before the POST to the
\* analytics service; limited, sent, failed: returned), the count it read,
\* and what checkRateLimit returned to it ("yes": true after the write,
\* "no": false, "failOpen": true from the catch block).
IdleCall == [at |-> "idle", count |-> 0, canTrack |-> ""]
StartedCall == [at |-> "get", count |-> 0, canTrack |-> ""]

\* The call made by the request in hand.
Call == hops + 1

\* A handler that awaits the promise of trackPageView.
ProceedsWhenSettled(call) == call.at \in {"limited", "sent", "failed"}

\* Lines 876-885: the promise of trackPageView is given a catch handler and
\* is not awaited: the handler goes on whatever the state of the call.
Proceeds(call) == TRUE

\* The state after construction: a request and a site of the set `worlds`,
\* nothing done yet, no tracking call made, and under the rate-limit key
\* one of the values `counts`.
Start(worlds, counts) ==
    /\ \E w \in worlds :
        /\ pathName = w.pathName
        /\ protocol = w.protocol
        /\ referrer = w.referrer
        /\ xOriginalHost = w.xOriginalHost
        /\ rangeHeader = w.rangeHeader
        /\ versionCid = w.versionCid
        /\ plan = w.plan
        /\ siteCid = w.siteCid
        /\ redirectsPlain = w.redirectsPlain
        /\ storedDoc = w.storedDoc
    /\ hops = 0
    /\ pc = "start"
    /\ redirectsArray = <<>>
    /\ isUsingVersionCid = FALSE
    /\ cid = NoValue
    /\ gatewayUrl = NoValue
    /\ cleanPath = NoValue
    /\ contentLength = 0
    /\ response = NoResponse
    /\ fetchLog = <<>>
    /\ result = NoResult
    /\ trackers = [t \in Trackers |-> IdleCall]
    /\ rateLimit \in counts

Init == Start(Worlds, {0})

Finish(r) == pc' = "done" /\ result' = r

\* Lines 822-825: handed to handleSSLValidationChallenge.
SslChallenge ==
    /\ pc = "start"
    /\ IsSslChallenge(pathName)
    /\ Finish([NoResult EXCEPT !.kind = "ssl"])
    /\ UNCHANGED <<request, registry, analytics, redirectsArray, isUsingVersionCid, cid,
                   gatewayUrl, cleanPath, contentLength, response, fetchLog>>

\* Lines 827-830: handed to handleAdminRequest.
AdminRequest ==
    /\ pc = "start"
    /\ ~IsSslChallenge(pathName)
    /\ IsAdminRequest(pathName)
    /\ Finish([NoResult EXCEPT !.kind = "admin"])
    /\ UNCHANGED <<request, registry, analytics, redirectsArray, isUsingVersionCid, cid,
                   gatewayUrl, cleanPath, contentLength, response, fetchLog>>

\* Lines 832-841.
BlockPhp ==
    /\ pc = "start"
    /\ ~IsSslChallenge(pathName)
    /\ ~IsAdminRequest(pathName)
    /\ IsBlockedExtension(pathName)
    /\ Finish([NoResult EXCEPT !.kind = "blocked", !.status = 404,
                               !.contentType = sTextPlain,
                               !.cacheControl = sCacheDay,
                               !.body = <<"N","o","t"," ","F","o","u","n","d">>])
    /\ UNCHANGED <<request, registry, analytics, redirectsArray, isUsingVersionCid, cid,
                   gatewayUrl, cleanPath, contentLength, response, fetchLog>>

\* Lines 843-885: the site key and the registry values are read and
\* trackPageView is called.
LookupSite ==
    /\ pc = "start"
    /\ ~IsSslChallenge(pathName)
    /\ ~IsAdminRequest(pathName)
    /\ ~IsBlockedExtension(pathName)
    /\ trackers' = [trackers EXCEPT ![Call] = StartedCall]
    /\ pc' = "dispatch"
    /\ UNCHANGED <<request, registry, rateLimit, redirectsArray, isUsingVersionCid, cid,
                   gatewayUrl, cleanPath, contentLength, response, fetchLog, result>>

\* Lines 887-890: handed to handleApiRequest.
ApiRequest ==
    /\ pc = "dispatch"
    /\ Proceeds(trackers[Call])
    /\ IsApiPath(pathName)
    /\ plan # "free"
    /\ Finish([NoResult EXCEPT !.kind = "api"])
    /\ UNCHANGED <<request, registry, analytics, redirectsArray, isUsingVersionCid, cid,
                   gatewayUrl, cleanPath, contentLength, response, fetchLog>>

\* The Response of lines 929-940 for the rule at index i.
RedirectResult(i) ==
    [NoResult EXCEPT !.kind = "redirect",
                     !.status = RedirectStatus(redirectsArray'[i]),
                     !.location = RedirectLocation(redirectsArray'[i], protocol, OriginalHost),
                     !.cacheControl = sCacheHour,
                     !.orbCid = siteCid,
                     !.orbContract = Contract,
                     !.rule = i]

\* Lines 892-944: the redirect rules.
CheckRedirects ==
    /\ pc = "dispatch"
    /\ Proceeds(trackers[Call])
    /\ ~(IsApiPath(pathName) /\ plan # "free")
    /\ IF plan = "free" \/ redirectsPlain.kind = "absent"
       THEN /\ redirectsArray' = <<>>
            /\ pc' = "resolve"
            /\ UNCHANGED result
       ELSE IF redirectsPlain.kind = "badjson"
       THEN /\ redirectsArray' = <<>>
            /\ Finish(ErrorResult(<<"S","y","n","t","a","x","E","r","r","o","r">>))
       ELSE /\ redirectsArray' = redirectsPlain.rules
            /\ LET i == FirstFiring(redirectsArray', pathName, 1)
               IN  IF i = 0
                   THEN pc' = "resolve" /\ UNCHANGED result
                   ELSE IF ~redirectsArray'[i].hasDestination
                   THEN Finish(ErrorResult(<<"T","y","p","e","E","r","r","o","r">>))
                   ELSE Finish(RedirectResult(i))
    /\ UNCHANGED <<request, registry, analytics, isUsingVersionCid, cid, gatewayUrl,
                   cleanPath, contentLength, response, fetchLog>>

\* A version trusted without asking the gateway.
IsUsingVersionCidUnchecked(version, containsCID) == version # NoValue

\* versionCid && (await pinata.gateways.containsCID(versionCid))
IsUsingVersionCid(version, containsCID) == version # NoValue /\ containsCID

\* Lines 946-955: the CID to serve.  containsCID is asked only for a
\* version the request names.
ResolveCid ==
    /\ pc = "resolve"
    /\ isUsingVersionCid' = IsUsingVersionCid(versionCid, versionCid \in GatewayCids)
    /\ cid' = IF isUsingVersionCid' THEN versionCid ELSE siteCid
    /\ IF cid' = NoValue
       THEN /\ Finish(ErrorResult(<<"E","r","r","o","r",":"," ","F","a","i","l","e","d"," ","t","o"," ","f","e","t","c","h"," ","s","i","t","e"," ","d","a","t","a"," ","f","o","r"," ","s","i","t","e","K","e","y",":"," ">> \o SiteKey))
            /\ UNCHANGED gatewayUrl
       ELSE /\ gatewayUrl' = GatewayConvert(cid')
            /\ pc' = "path"
            /\ UNCHANGED result
    /\ UNCHANGED <<request, registry, analytics, redirectsArray, cleanPath, contentLength,
                   response, fetchLog>>

\* Lines 957-973: the Referer is parsed and cleanPath computed.
BuildCleanPath ==
    /\ pc = "path"
    /\ IF referrer # NoValue /\ ~ParseUrl(referrer).ok
       THEN /\ Finish(ErrorResult(<<"T","y","p","e","E","r","r","o","r",":"," ","I","n","v","a","l","i","d"," ","U","R","L">>))
            /\ UNCHANGED cleanPath
       ELSE /\ cleanPath' = CleanPath(pathName, referrer # NoValue,
                                      ParseUrl(referrer).pathname)
            /\ pc' = "fetch"
            /\ UNCHANGED result
    /\ UNCHANGED <<request, registry, analytics, redirectsArray, isUsingVersionCid, cid,
                   gatewayUrl, contentLength, response, fetchLog>>

\* await fetch(url): the gateway answers with some status and with or
\* without a Content-Type header.
Fetch(url, status, header) ==
    /\ response' = [status |-> status, url |-> url, contentType |-> header]
    /\ fetchLog' = Append(fetchLog, Fetched("candidate", "GET", url, NoValue, status))

CandidateUrl(i) == gatewayUrl \o sSlash \o PathCandidates(pathName, cleanPath)[i]

\* Line 996: the root path.
FetchRootIndex ==
    /\ pc = "fetch"
    /\ ~(pathName # NoValue /\ pathName # sSlash)
    /\ \E status \in FetchStatuses, header \in ContentTypeHeaders :
        /\ Fetch(CandidateUrl(1), status, header)
        /\ pc' = IF Ok(status) THEN "respond" ELSE "notfound"
    /\ UNCHANGED <<request, registry, analytics, redirectsArray, isUsingVersionCid, cid,
                   gatewayUrl, cleanPath, contentLength, result>>

\* Lines 978-980: an extensionless path, <path>/index.html first.
FetchDirIndex ==
    /\ pc = "fetch"
    /\ pathName # NoValue /\ pathName # sSlash
    /\ ~Includes(cleanPath, sDot)
    /\ \E status \in FetchStatuses, header \in ContentTypeHeaders :
        /\ Fetch(CandidateUrl(1), status, header)
        /\ pc' = IF Ok(status) THEN "respond" ELSE "html"
    /\ UNCHANGED <<request, registry, analytics, redirectsArray, isUsingVersionCid, cid,
                   gatewayUrl, cleanPath, contentLength, result>>

\* Lines 982-985: then <path>.html.
FetchDotHtml ==
    /\ pc = "html"
    /\ \E status \in FetchStatuses, header \in ContentTypeHeaders :
        /\ Fetch(CandidateUrl(2), status, header)
        /\ pc' = IF Ok(status) THEN "respond" ELSE "notfound"
    /\ UNCHANGED <<request, registry, analytics, redirectsArray, isUsingVersionCid, cid,
                   gatewayUrl, cleanPath, contentLength, result>>

\* Lines 986-993: a path with an extension, not a ranged media request.
FetchFile ==
    /\ pc = "fetch"
    /\ pathName # NoValue /\ pathName # sSlash
    /\ Includes(cleanPath, sDot)
    /\ ~(IsMediaFile(cleanPath) /\ rangeHeader # NoValue)
    /\ \E status \in FetchStatuses, header \in ContentTypeHeaders :
        /\ Fetch(CandidateUrl(1), status, header)
        /\ pc' = IF Ok(status) THEN "respond" ELSE "notfound"
    /\ UNCHANGED <<request, registry, analytics, redirectsArray, isUsingVersionCid, cid,
                   gatewayUrl, cleanPath, contentLength, result>>

\* Lines 987-990: a media path requested with a Range header goes to
\* handleRangeRequest.
RangeDispatch ==
    /\ pc = "fetch"
    /\ pathName # NoValue /\ pathName # sSlash
    /\ Includes(cleanPath, sDot)
    /\ IsMediaFile(cleanPath) /\ rangeHeader # NoValue
    /\ pc' = "rangeHead"
    /\ UNCHANGED <<request, registry, analytics, redirectsArray, isUsingVersionCid, cid,
                   gatewayUrl, cleanPath, contentLength, response, fetchLog, result>>

MediaUrl == gatewayUrl \o sSlash \o cleanPath

\* The headers every Response of handleRangeRequest with a body carries.
RangeResult(status, ctype, clen) ==
    [NoResult EXCEPT !.kind = "range", !.status = status,
                     !.contentType = IF ctype # NoValue THEN ctype ELSE sOctetStream,
                     !.contentLength = clen,
                     !.acceptRanges = "bytes",
                     !.cacheControl = sCacheHour,
                     !.orbCid = cid,
                     !.orbContract = Contract]

\* Lines 484-509: the HEAD probe, the size and the validation of the range.
RangeHead ==
    /\ pc = "rangeHead"
    /\ \E status \in {200, 404}, lengthHeader \in ContentLengthHeaders :
        /\ fetchLog' = Append(fetchLog, Fetched("range", "HEAD", MediaUrl, NoValue, status))
        /\ response' = [status |-> status, url |-> MediaUrl, contentType |-> NoValue]
        /\ IF ~Ok(status)
           THEN /\ Finish([NoResult EXCEPT !.kind = "range", !.status = 404,
                                           !.body = <<"F","i","l","e"," ","n","o","t"," ","f","o","u","n","d">>])
                /\ UNCHANGED contentLength
           ELSE /\ contentLength' = ParseInt(IF lengthHeader # NoValue
                                             THEN lengthHeader ELSE <<"0">>)
                /\ IF contentLength' = 0
                   THEN pc' = "rangeNoLength" /\ UNCHANGED result
                   ELSE IF ~ParseRangeHeader(rangeHeader, contentLength').ok
                   THEN Finish([NoResult EXCEPT !.kind = "range", !.status = 416,
                                                !.body = <<"I","n","v","a","l","i","d"," ","r","a","n","g","e">>])
                   ELSE pc' = "rangeFetch" /\ UNCHANGED result
    /\ UNCHANGED <<request, registry, analytics, redirectsArray, isUsingVersionCid, cid,
                   gatewayUrl, cleanPath>>

\* Lines 490-504: no size, the whole object is fetched and returned.
RangeNoLength ==
    /\ pc = "rangeNoLength"
    /\ \E status \in FetchStatuses, ctype \in ContentTypeHeaders,
          lengthHeader \in {NoValue, <<"1","0","0","0">>} :
        /\ response' = [status |-> status, url |-> MediaUrl, contentType |-> ctype]
        /\ fetchLog' = Append(fetchLog, Fetched("range", "GET", MediaUrl, NoValue, status))
        /\ Finish([RangeResult(200, ctype,
                       IF lengthHeader # NoValue THEN lengthHeader ELSE <<"0">>)
                   EXCEPT !.body = <<"f","u","l","l">>])
    /\ UNCHANGED <<request, registry, analytics, redirectsArray, isUsingVersionCid, cid,
                   gatewayUrl, cleanPath, contentLength>>

RangeRequestValue(range) ==
    sBytesEq \o NumToString(range.start) \o sDash \o NumToString(range.end)

ContentRangeValue(range, size) ==
    <<"b","y","t","e","s"," ">> \o NumToString(range.start) \o sDash \o NumToString(range.end)
        \o sSlash \o NumToString(size)

\* Lines 511-548: the ranged re-fetch and, when the gateway answers it with
\* an ok status, the 206 response with the body the gateway sent: the bytes
\* of the range for a 206, the whole object for a 200.
RangeFetch ==
    /\ pc = "rangeFetch"
    /\ LET range == ParseRangeHeader(rangeHeader, contentLength)
       IN  \E status \in RangeFetchStatuses, ctype \in {NoValue, <<"v","i","d","e","o","/","m","p","4">>} :
            /\ fetchLog' = Append(fetchLog,
                   Fetched("range", "GET", MediaUrl, RangeRequestValue(range), status))
            /\ response' = [status |-> status, url |-> MediaUrl, contentType |-> ctype]
            /\ IF ~Ok(status)
               THEN pc' = "rangeFallback" /\ UNCHANGED result
               ELSE Finish([RangeResult(206, ctype,
                                NumToString(range.end - range.start + 1))
                            EXCEPT !.contentRange = ContentRangeValue(range, contentLength),
                                   !.body = IF status = 206 THEN <<"p","a","r","t","i","a","l">>
                                            ELSE <<"f","u","l","l">>])
    /\ UNCHANGED <<request, registry, analytics, redirectsArray, isUsingVersionCid, cid,
                   gatewayUrl, cleanPath, contentLength>>

\* Lines 517-531: the ranged re-fetch failed, the whole object is returned.
RangeFallback ==
    /\ pc = "rangeFallback"
    /\ \E status \in FetchStatuses, ctype \in {NoValue, <<"v","i","d","e","o","/","m","p","4">>} :
        /\ response' = [status |-> status, url |-> MediaUrl, contentType |-> ctype]
        /\ fetchLog' = Append(fetchLog, Fetched("range", "GET", MediaUrl, NoValue, status))
        /\ Finish([RangeResult(200, ctype, NumToString(contentLength))
                   EXCEPT !.body = <<"f","u","l","l">>])
    /\ UNCHANGED <<request, registry, analytics, redirectsArray, isUsingVersionCid, cid,
                   gatewayUrl, cleanPath, contentLength>>

\* A rule list in which no page for missing objects is looked for.
FindCustom404Never(rules, i) == 0

\* redirectsArray.find((redirect) => redirect.source === '404')
RECURSIVE FindCustom404(_, _)
FindCustom404(rules, i) ==
    IF i > Len(rules) THEN 0
    ELSE IF rules[i].source = sNotFoundSource THEN i
    ELSE FindCustom404(rules, i + 1)

NotFoundPath(redirect) ==
    IF StartsWith(redirect.destination, sSlash)
    THEN SliceFrom(redirect.destination, 1)
    ELSE redirect.destination

\* Lines 999-1024: every candidate failed and a rule with source "404"
\* names a page.
Custom404 ==
    /\ pc = "notfound"
    /\ FindCustom404(redirectsArray, 1) # 0
    /\ LET custom404 == redirectsArray[FindCustom404(redirectsArray, 1)]
       IN  IF ~custom404.hasDestination
           THEN /\ Finish(ErrorResult(<<"T","y","p","e","E","r","r","o","r">>))
                /\ UNCHANGED <<response, fetchLog>>
           ELSE \E status \in FetchStatuses, ctype \in {NoValue, sTextHtml} :
                   /\ fetchLog' = Append(fetchLog,
                          Fetched("custom404", "GET", gatewayUrl \o sSlash \o NotFoundPath(custom404)
                                            \o sDotHtml, NoValue, status))
                   /\ UNCHANGED response
                   /\ IF Ok(status)
                      THEN Finish([NoResult EXCEPT
                                     !.kind = "custom404", !.status = 404,
                                     !.contentType = IF ctype # NoValue THEN ctype
                                                     ELSE sTextHtml,
                                     !.cacheControl = sCacheHour,
                                     !.orbCid = cid,
                                     !.orbContract = Contract,
                                     !.body = storedDoc])
                      ELSE pc' = "lastResort" /\ UNCHANGED result
    /\ UNCHANGED <<request, registry, analytics, redirectsArray, isUsingVersionCid, cid,
                   gatewayUrl, cleanPath, contentLength>>

\* A last resort that asks for the index page of the snapshot.
SplitIndexHtmlKeepsKey(url) == url \o sSlash \o sIndexHtml

\* gatewayUrl.split('/index.html')[0]
SplitIndexHtml(url) ==
    LET at == IndexOf(url, sSlash \o sIndexHtml)
    IN  IF at = 0 THEN url ELSE SubSeq(url, 1, at - 1)

\* Lines 1026-1028: the last resort, the root of the snapshot.
LastResort ==
    /\ \/ pc = "notfound" /\ FindCustom404(redirectsArray, 1) = 0
       \/ pc = "lastResort"
    /\ gatewayUrl' = SplitIndexHtml(gatewayUrl)
    /\ \E status \in RootFetchStatuses, header \in ContentTypeHeaders :
        /\ response' = [status |-> status, url |-> gatewayUrl', contentType |-> header]
        /\ fetchLog' = Append(fetchLog, Fetched("root", "GET", gatewayUrl', NoValue, status))
    /\ pc' = "respond"
    /\ UNCHANGED <<request, registry, analytics, redirectsArray, isUsingVersionCid, cid,
                   cleanPath, contentLength, result>>

\* Lines 1031-1097: the content type, the HTML pass and the final Response.
Respond ==
    /\ pc = "respond"
    /\ LET contentType == IF response.contentType # NoValue
                          THEN response.contentType ELSE sTextHtml
           body == IF Includes(contentType, sTextHtml)
                   THEN LinkRewriter(storedDoc, pathName, protocol, OriginalHost,
                                     isUsingVersionCid, versionCid)
                   ELSE storedDoc
       IN  Finish([NoResult EXCEPT
                     !.kind = "content", !.status = response.status,
                     !.contentType = contentType,
                     !.allowOrigin = "*",
                     !.cacheControl = sCacheHour,
                     !.acceptRanges = IF IsMediaFile(cleanPath) THEN "bytes" ELSE "",
                     !.orbCid = cid,
                     !.orbContract = Contract,
                     !.body = body])
    /\ UNCHANGED <<request, registry, analytics, redirectsArray, isUsingVersionCid, cid,
                   gatewayUrl, cleanPath, contentLength, response, fetchLog>>

\* The calls the handler awaits at each place: the registry reads, the CID
\* validation, the requests to the gateway, the reading of an HTML body.
AwaitingAt ==
    {"start", "dispatch", "resolve", "fetch", "html", "notfound", "lastResort",
     "respond", "rangeHead", "rangeNoLength", "rangeFetch", "rangeFallback"}

\* String(error) of a rejected call.
sRejection == <<"T","y","p","e","E","r","r","o","r",":"," ","f","e","t","c","h"," ","f","a","i","l","e","d">>

\* Lines 1098-1104: a call the handler awaits rejects and the catch block
\* answers.
Throw ==
    /\ pc \in AwaitingAt
    /\ pc = "start" =>
          ~IsSslChallenge(pathName) /\ ~IsAdminRequest(pathName)
              /\ ~IsBlockedExtension(pathName)
    /\ Finish(ErrorResult(sRejection))
    /\ UNCHANGED <<request, registry, analytics, redirectsArray, isUsingVersionCid, cid,
                   gatewayUrl, cleanPath, contentLength, response, fetchLog>>

\* The client follows the Location of a redirect (lines 929-940) that names
\* the scheme and host it asked: a new request, for the path of the
\* Location, to the same site.
Follow ==
    /\ pc = "done"
    /\ result.kind = "redirect"
    /\ hops < MaxHops
    /\ StartsWith(result.location, protocol \o <<"/","/">>)
    /\ ParseUrl(result.location).ok
    /\ ParseUrl(result.location).host = OriginalHost
    /\ pathName' = ParseUrl(result.location).pathname
    /\ hops' = hops + 1
    /\ pc' = "start"
    /\ redirectsArray' = <<>>
    /\ isUsingVersionCid' = FALSE
    /\ cid' = NoValue
    /\ gatewayUrl' = NoValue
    /\ cleanPath' = NoValue
    /\ contentLength' = 0
    /\ response' = NoResponse
    /\ fetchLog' = <<>>
    /\ result' = NoResult
    /\ UNCHANGED <<protocol, referrer, xOriginalHost, rangeHeader, versionCid, registry,
                   analytics>>

Next ==
    \/ SslChallenge
    \/ AdminRequest
    \/ BlockPhp
    \/ LookupSite
    \/ ApiRequest
    \/ CheckRedirects
    \/ ResolveCid
    \/ BuildCleanPath
    \/ FetchRootIndex
    \/ FetchDirIndex
    \/ FetchDotHtml
    \/ FetchFile
    \/ RangeDispatch
    \/ RangeHead
    \/ RangeNoLength
    \/ RangeFetch
    \/ RangeFallback
    \/ Custom404
    \/ LastResort
    \/ Respond
    \/ Throw
    \/ Follow

Spec == Init /\ [][Next]_vars


(***************************************************************************)
(* trackPageView and checkRateLimit (src/src/utils/pinata.ts).             *)
(***************************************************************************)

\* const maxHits: number = 3
MaxHits == 3

\* What the handler reads and writes.
handler == <<request, registry, pc, redirectsArray, isUsingVersionCid, cid,
             gatewayUrl, cleanPath, contentLength, response, fetchLog, result>>

\* Another request with the same site, hashed IP and bucket reaches line
\* 876 and calls trackPageView.
OtherRequest ==
    /\ \E t \in Trackers :
        /\ t # Call
        /\ trackers[t].at = "idle"
        /\ trackers' = [trackers EXCEPT ![t] = StartedCall]
    /\ UNCHANGED <<handler, rateLimit>>

\* checkRateLimit, lines 256-261: the count under the key is read and
\* compared with maxHits; a read that rejects goes to the catch block,
\* which returns true.
CheckRateLimitGet ==
    /\ \E t \in Trackers, available \in BOOLEAN :
        /\ trackers[t].at = "get"
        /\ trackers' = [trackers EXCEPT ![t] =
              IF ~available
              THEN [at |-> "post", count |-> 0, canTrack |-> "failOpen"]
              ELSE IF rateLimit >= MaxHits
              THEN [at |-> "limited", count |-> rateLimit, canTrack |-> "no"]
              ELSE [at |-> "put", count |-> rateLimit, canTrack |-> ""]]
    /\ UNCHANGED <<handler, rateLimit>>

\* checkRateLimit, lines 264-268: the count read, plus one, is written
\* under the key and true is returned; a write that rejects goes to the
\* catch block, which returns true.
CheckRateLimitPut ==
    /\ \E t \in Trackers, available \in BOOLEAN :
        /\ trackers[t].at = "put"
        /\ IF available
           THEN /\ rateLimit' = trackers[t].count + 1
                /\ trackers' = [trackers EXCEPT ![t].at = "post", ![t].canTrack = "yes"]
           ELSE /\ UNCHANGED rateLimit
                /\ trackers' = [trackers EXCEPT ![t].at = "post",
                                                ![t].canTrack = "failOpen"]
    /\ UNCHANGED handler

\* trackPageView, lines 190-204: the POST to the analytics service
\* resolves, or rejects and is logged by the catch block.
AnalyticsPost ==
    /\ \E t \in Trackers, delivered \in BOOLEAN :
        /\ trackers[t].at = "post"
        /\ trackers' = [trackers EXCEPT ![t].at = IF delivered THEN "sent" ELSE "failed"]
    /\ UNCHANGED <<handler, rateLimit>>

\* The steps of the tracking calls.
TrackerNext == CheckRateLimitGet \/ CheckRateLimitPut \/ AnalyticsPost

\* Requests whose handling takes every path of the handler: plain pages on
\* the free plan, and a paid site with a redirect rule or a "404" rule.
TrackedWorlds ==
    {w \in Worlds :
        /\ w.referrer = NoValue /\ w.xOriginalHost = NoValue /\ w.protocol = sHttps
        /\ w.versionCid = NoValue /\ w.siteCid = SiteCid /\ w.storedDoc = PlainDoc
        /\ \/ /\ w.plan = "free" /\ w.rangeHeader = NoValue
              /\ w.redirectsPlain = NoStoredRules
              /\ w.pathName \in {<<"/">>, <<"/","a">>, <<"/","a","/","a",".","a">>, <<"/","x",".","p","h","p">>, <<"/","a","d","m","i","n","/","x">>, <<"/",".","w","e","l","l","-","k","n","o","w","n","/","x">>}
           \/ /\ w.plan = "pro" /\ w.rangeHeader = NoValue
              /\ w.pathName \in {<<"/","o","l","d">>, <<"/","a","p","i","/","x">>}
              /\ w.redirectsPlain =
                    StoredRules("json", <<Rule(<<"/","o","l","d">>, TRUE, <<"/","n","e","w">>, 302, FALSE)>>)
           \/ /\ w.plan = "pro"
              /\ w.pathName \in {<<"/","a">>, <<"/","v",".","m","p","4">>}
              /\ w.redirectsPlain =
                    StoredRules("json", <<Rule(<<"4","0","4">>, TRUE, <<"/","a","a">>, 0, FALSE)>>)}

\* The handler with the tracking calls it starts running beside it, for a
\* key under which no page view or MaxHits page views are counted already.
TrackedInit == Start(TrackedWorlds, {0, MaxHits})

TrackedNext == Next \/ TrackerNext

TrackedSpec == TrackedInit /\ [][TrackedNext]_vars

\* Requests in flight that share one rate-limit key: the request in hand up
\* to its call of trackPageView, the others from theirs on.
LimiterInit == Start({World(<<"/">>, sHttps, NoValue, NoValue, NoValue, NoValue, "free",
                            SiteCid, NoStoredRules, PlainDoc)}, {0})

LimiterNext == LookupSite \/ OtherRequest \/ TrackerNext

LimiterSpec == LimiterInit /\ [][LimiterNext]_vars

(***************************************************************************)
(* Properties.                                                             *)
(***************************************************************************)

\* The key a logged request asks for: its URL without the gateway prefix.
KeyOf(entry) == SliceFrom(entry.url, Len(GatewayConvert(cid)) + 1)

\* The keys of the candidate phase, a key asked for again counted once.
RECURSIVE KeysTried(_)
KeysTried(log) ==
    IF log = <<>> THEN <<>>
    ELSE LET before == KeysTried(SubSeq(log, 1, Len(log) - 1))
             last == log[Len(log)]
         IN  IF last.via \notin {"candidate", "range"} THEN before
             ELSE IF before # <<>> /\ before[Len(before)] = KeyOf(last) THEN before
             ELSE Append(before, KeyOf(last))

IsPrefix(s, t) == Len(s) <= Len(t) /\ SubSeq(t, 1, Len(s)) = s

CandidatesExhausted ==
    \/ pc \in {"notfound", "lastResort"}
    \/ \E k \in 1..Len(fetchLog) : fetchLog[k].via \in {"custom404", "root"}

\* The candidate keys the specification gives for a request path.
ExpectedCandidates(p) ==
    IF p = sSlash THEN <<sIndexHtml>>
    ELSE IF ~Includes(p, sDot)
    THEN <<SliceFrom(p, 1) \o <<"/","i","n","d","e","x",".","h","t","m","l">>, SliceFrom(p, 1) \o <<".","h","t","m","l">>>>
    ELSE <<SliceFrom(p, 1)>>

\* C1: the keys asked of the gateway are a function of the request path
\* alone: for a non-root path without "." they are <p>/index.html then
\* <p>.html, for a path with "." the single key p (p without its leading
\* slash), for the root path index.html; whatever the Referer header is.
\* The handler stops asking at the first success, so the keys asked so far
\* are a leading part of that list, and the whole list once every
\* candidate has failed.
C1_CandidateKeys ==
    fetchLog # <<>> =>
        /\ KeysTried(fetchLog) # <<>>
        /\ IsPrefix(KeysTried(fetchLog), ExpectedCandidates(pathName))
        /\ fetchLog[1].via = "candidate" /\ CandidatesExhausted
              => KeysTried(fetchLog) = ExpectedCandidates(pathName)

\* C1 witness: an extensionless path, sent with a Referer of a deeper page,
\* whose two candidates were both asked for.
C1_Witness ==
    /\ pc = "notfound"
    /\ pathName = <<"/","a">>
    /\ referrer = <<"h","t","t","p","s",":","/","/","h","/","d","/","p",".","h","t","m","l">>
    /\ KeysTried(fetchLog) = <<<<"a","/","i","n","d","e","x",".","h","t","m","l">>, <<"a",".","h","t","m","l">>>>

\* C2: the list of candidate keys is never empty, never holds the same key
\* twice in a row, and no candidate key begins with "/".
C2_CandidateListWellFormed ==
    fetchLog # <<>> =>
        LET candidates == PathCandidates(pathName, cleanPath)
        IN  /\ candidates # <<>>
            /\ \A k \in 1..(Len(candidates) - 1) : candidates[k] # candidates[k + 1]
            /\ \A k \in 1..Len(candidates) : ~StartsWith(candidates[k], sSlash)
            /\ \A k \in 1..Len(KeysTried(fetchLog)) :
                  ~StartsWith(KeysTried(fetchLog)[k], sSlash)

\* The handler answered with a rewritten HTML document.
ServedHtml ==
    /\ pc = "done"
    /\ result.kind = "content"
    /\ Includes(result.contentType, sTextHtml)

\* C3: the HTML pass is idempotent: applied to the document it produced,
\* with the same request path, host and pinned version, it returns that
\* document unchanged (no second base element, no second version
\* parameter).
C3_RewriteIdempotent ==
    ServedHtml =>
        LinkRewriter(result.body, pathName, protocol, OriginalHost,
                     isUsingVersionCid, versionCid) = result.body

\* The src/href attributes of a document as HTML reads them: the value runs
\* from the opening quote to the next quote of the same kind.
AttributeAt(text, i) ==
    LET attr == IF StartsWithAt(text, sSrc, i) THEN sSrc
                ELSE IF StartsWithAt(text, sHref, i) THEN sHref
                ELSE <<>>
        open == i + Len(attr) + 1
        opened == /\ attr # <<>>
                  /\ StartsWithAt(text, sEq, i + Len(attr))
                  /\ open <= Len(text)
                  /\ text[open] \in Quotes
        close == IF opened
                 THEN open + FirstOf(SubSeq(text, open + 1, Len(text)), {text[open]})
                 ELSE Len(text) + 1
        ok == opened /\ close <= Len(text)
    IN  [ok |-> ok,
         whole |-> IF ok THEN SubSeq(text, i, close) ELSE <<>>,
         value |-> IF ok THEN SubSeq(text, open + 1, close - 1) ELSE <<>>]

IsAbsoluteValue(v) ==
    \E p \in {sHttpScheme, sHttpsScheme, <<"/","/">>, <<"d","a","t","a",":">>} : StartsWith(v, p)

\* C4: every src/href attribute of the stored document whose value is
\* already absolute (http://, https://, // or data:) is found unchanged in
\* the served document.
C4_AbsoluteUntouched ==
    ServedHtml =>
        \A i \in 1..Len(storedDoc) :
            LET a == AttributeAt(storedDoc, i)
            IN  a.ok /\ IsAbsoluteValue(a.value) => Includes(result.body, a.whole)

\* The parts of a URL reference: what precedes the fragment, the fragment,
\* the query, the path.
BeforeFragment(v) == SubSeq(v, 1, FirstOf(v, {"#"}) - 1)
FragmentOf(v) == SubSeq(v, FirstOf(v, {"#"}), Len(v))
QueryOf(v) == SubSeq(BeforeFragment(v), FirstOf(BeforeFragment(v), {"?"}),
                     Len(BeforeFragment(v)))
PathOf(v) == SubSeq(v, 1, FirstOf(v, {"?", "#"}) - 1)

CountOf(s, c) == Cardinality({i \in 1..Len(s) : s[i] = c})

\* The text the pass works on, and the value it writes for the attribute
\* it matches at position i of that text.
InjectedDoc ==
    InjectBase(storedDoc, BaseUrl(protocol, OriginalHost, CurrentPathContext(pathName)))

OriginalValue(m) == SubSeq(InjectedDoc, m.open + 1, m.close - 1)

WrittenValue(m) ==
    AssetPath(OriginalValue(m), CurrentPathContext(pathName))
        \o VersionParam(isUsingVersionCid, versionCid)

WrittenAttribute(m) ==
    m.attr \o sEq \o <<InjectedDoc[m.open]>> \o WrittenValue(m) \o <<InjectedDoc[m.open]>>

\* C5: a rewritten value that carried a query string or a fragment keeps
\* them intact and well formed: the fragment is the original fragment, the
\* query begins with the original query, and no second "?" appears before
\* the fragment.
C5_QueryAndFragmentKept ==
    ServedHtml =>
        \A i \in 1..Len(InjectedDoc) :
            LET m == LinkMatchAt(InjectedDoc, i)
                v == OriginalValue(m)
                w == WrittenValue(m)
            IN  m.ok /\ (Includes(v, <<"?">>) \/ Includes(v, <<"#">>)) =>
                    /\ Includes(result.body, WrittenAttribute(m))
                    /\ FragmentOf(w) = FragmentOf(v)
                    /\ IsPrefix(QueryOf(v), QueryOf(w))
                    /\ CountOf(BeforeFragment(w), "?") <= 1

\* The directory of a key: the key up to its last "/".
DirectoryOf(key) == Substring0(key, LastIndexOf(key, sSlash))

\* The key of the object the handler served: the URL of the response it
\* holds, without the gateway prefix (empty for the root of the snapshot).
ServedKey ==
    IF Len(response.url) <= Len(GatewayConvert(cid)) THEN <<>>
    ELSE SliceFrom(response.url, Len(GatewayConvert(cid)) + 1)

\* The key a same-site URL path maps to.
KeyOfPath(w) == IF StartsWith(w, sSlash) THEN SliceFrom(w, 1) ELSE w

\* A key with every run of slashes read as one slash.
RECURSIVE CollapseSlashes(_)
CollapseSlashes(key) ==
    IF Len(key) <= 1 THEN key
    ELSE IF key[1] = "/" /\ key[2] = "/" THEN CollapseSlashes(Tail(key))
    ELSE <<key[1]>> \o CollapseSlashes(Tail(key))

\* C6: every relative src/href value v of the stored document is rewritten
\* to a URL whose path maps to the key v denotes relative to the directory
\* of the object that was served (keys compared with repeated slashes read
\* as one).
C6_RelativeLinksResolve ==
    ServedHtml =>
        \A i \in 1..Len(InjectedDoc) :
            LET m == LinkMatchAt(InjectedDoc, i)
                v == OriginalValue(m)
            IN  m.ok /\ v # <<>> /\ ~StartsWith(v, sSlash) =>
                    /\ Includes(result.body, WrittenAttribute(m))
                    /\ CollapseSlashes(KeyOfPath(PathOf(WrittenValue(m))))
                          = CollapseSlashes(DirectoryOf(ServedKey) \o PathOf(v))

\* Normalisation of a rule as the specification states it: source and
\* destination begin with "/", an absolute destination is reduced to its
\* path, query and fragment.
NormalizedSource(r) ==
    IF StartsWith(r.source, sSlash) THEN r.source ELSE sSlash \o r.source

HasNormalizedDestination(r) ==
    r.hasDestination /\ (IsAbsoluteHttp(r.destination) => ParseUrl(r.destination).ok)

NormalizedDestination(r) ==
    IF IsAbsoluteHttp(r.destination)
    THEN ParseUrl(r.destination).pathname \o ParseUrl(r.destination).search
            \o ParseUrl(r.destination).hash
    ELSE IF StartsWith(r.destination, sSlash) THEN r.destination
    ELSE sSlash \o r.destination

AtDestination(r, c) == HasNormalizedDestination(r) /\ c = NormalizedDestination(r)

Matches(r, c) ==
    \/ c = NormalizedSource(r)
    \/ r.force /\ StartsWith(c, NormalizedSource(r))

\* The Location of a redirect by rule r.
ExpectedLocation(r) ==
    IF IsAbsoluteHttp(r.destination) THEN r.destination
    ELSE IF StartsWith(r.destination, sSlash)
    THEN protocol \o <<"/","/">> \o OriginalHost \o r.destination
    ELSE protocol \o <<"/","/">> \o OriginalHost \o sSlash \o r.destination

ExpectedStatus(r) == IF r.status = 0 THEN 301 ELSE r.status

Redirected == pc = "done" /\ result.kind = "redirect"

\* C7: no rule redirects a request that is already at the rule's normalized
\* destination; in particular a rule whose normalized source equals its
\* normalized destination never redirects a request at that path.
C7_NoSelfRedirect ==
    \A i \in 1..Len(redirectsArray) :
        AtDestination(redirectsArray[i], pathName)
            => ~(Redirected /\ result.rule = i)

\* C7 witness: a request at the path that is both source and destination of
\* the site's only rule was answered with content.
C7_Witness ==
    /\ pc = "done"
    /\ result.kind = "content"
    /\ Len(redirectsArray) = 1
    /\ Matches(redirectsArray[1], pathName)
    /\ AtDestination(redirectsArray[1], pathName)
    /\ NormalizedSource(redirectsArray[1]) = NormalizedDestination(redirectsArray[1])

\* A rule that matches the path and is not passed over by the guard.
MatchesUnguarded(r, c) == Matches(r, c) /\ ~AtDestination(r, c)

\* C8: rules are evaluated in list order and the first matching rule wins:
\* the status and Location of an emitted redirect are those of the
\* lowest-index rule that matches the path and is not passed over by the
\* self-redirect guard.
C8_FirstMatchWins ==
    Redirected =>
        \E i \in 1..Len(redirectsArray) :
            /\ MatchesUnguarded(redirectsArray[i], pathName)
            /\ \A j \in 1..(i - 1) : ~MatchesUnguarded(redirectsArray[j], pathName)
            /\ result.status = ExpectedStatus(redirectsArray[i])
            /\ result.location = ExpectedLocation(redirectsArray[i])

\* C8 witness: an exact rule ahead of a force rule that matches too, and
\* the redirect is the exact rule's.
C8_Witness ==
    /\ Redirected
    /\ pathName = <<"/","o","l","d">>
    /\ Len(redirectsArray) = 2
    /\ ~redirectsArray[1].force /\ redirectsArray[2].force
    /\ MatchesUnguarded(redirectsArray[1], pathName)
    /\ MatchesUnguarded(redirectsArray[2], pathName)
    /\ result.status = 302
    /\ EndsWith(result.location, <<"/","n","e","w">>)

\* The answer is a redirect by rule r with no request sent to the gateway.
RedirectedBy(r) ==
    /\ result.kind = "redirect"
    /\ result.status = ExpectedStatus(r)
    /\ result.location = ExpectedLocation(r)
    /\ fetchLog = <<>>

FellThrough == result.kind \in {"content", "custom404", "range", "error"}

StoredRuleList == IF redirectsPlain.kind = "json" THEN redirectsPlain.rules ELSE <<>>

\* The rule at index i is the first of the site's list to match the path,
\* and the path is not its destination.
FirstToMatch(i) ==
    /\ Matches(StoredRuleList[i], pathName)
    /\ ~AtDestination(StoredRuleList[i], pathName)
    /\ \A j \in 1..(i - 1) : ~Matches(StoredRuleList[j], pathName)

\* The requests the handler answers itself: not the SSL challenges, admin
\* calls, blocked extensions and tenant API calls it hands on or refuses
\* before it looks at the site's rules.
HandledHere ==
    /\ ~IsSslChallenge(pathName)
    /\ ~IsAdminRequest(pathName)
    /\ ~IsBlockedExtension(pathName)
    /\ ~(IsApiPath(pathName) /\ plan # "free")

\* A call the handler awaited was rejected.
Rejected == result = ErrorResult(sRejection)

\* C9 as stated: for every site whose list holds a rule R (with a
\* destination) and every path c other than R's normalized destination, if
\* R matches c and no earlier rule does, the answer is a redirect with R's
\* status (301 when unset) and R's destination as Location, and no content
\* is fetched; if no rule matches, the request falls through to content
\* resolution.
C9_RedirectAsStated ==
    pc = "done" /\ redirectsPlain.kind = "json" /\ HandledHere /\ ~Rejected =>
        /\ \A i \in 1..Len(StoredRuleList) :
              FirstToMatch(i) /\ StoredRuleList[i].hasDestination
                  => RedirectedBy(StoredRuleList[i])
        /\ (\A i \in 1..Len(StoredRuleList) : ~Matches(StoredRuleList[i], pathName))
              => FellThrough

\* C9 amended: the same for the sites that are not on the free plan; for a
\* site on the free plan the rules are not read, no request is redirected
\* and every request falls through to content resolution.
C9_RedirectOnPaidPlan ==
    pc = "done" /\ redirectsPlain.kind = "json" /\ HandledHere /\ ~Rejected =>
        /\ plan # "free" =>
            /\ \A i \in 1..Len(StoredRuleList) :
                  FirstToMatch(i) /\ StoredRuleList[i].hasDestination
                      => RedirectedBy(StoredRuleList[i])
            /\ (\A i \in 1..Len(StoredRuleList) : ~Matches(StoredRuleList[i], pathName))
                  => FellThrough
        /\ plan = "free" => FellThrough

\* C9 witness: a force rule with no status redirected a path it matches by
\* prefix only, with status 301, to the forwarded host.
C9_Witness ==
    /\ Redirected
    /\ xOriginalHost = ForwardedHost
    /\ \E i \in 1..Len(StoredRuleList) :
          /\ FirstToMatch(i)
          /\ StoredRuleList[i].force
          /\ StoredRuleList[i].status = 0
          /\ pathName # NormalizedSource(StoredRuleList[i])
          /\ result.status = 301
          /\ RedirectedBy(StoredRuleList[i])

\* The Range header is bytes=a- (b = -1) or bytes=a-b.
IsRangeOf(a, b) ==
    rangeHeader = sBytesEq \o NumToString(a) \o sDash
                    \o (IF b = -1 THEN <<>> ELSE NumToString(b))

\* The last byte asked for: b, or the last byte of the object.
LastByte(b, size) == IF b = -1 THEN size - 1 ELSE b

Unsatisfiable(a, b, size) ==
    a > size - 1 \/ LastByte(b, size) > size - 1 \/ a > LastByte(b, size)

\* The gateway answered the ranged re-fetch with partial content.
RangeHonoured ==
    /\ fetchLog # <<>>
    /\ fetchLog[Len(fetchLog)].range # NoValue
    /\ fetchLog[Len(fetchLog)].status = 206

\* C10: for a media object of known size S > 0 and a Range header bytes=a-b
\* (b optional, S-1 by default) the response is 416 exactly when a > S-1,
\* b > S-1 or a > b, never the full content instead; otherwise, when the
\* gateway honours the ranged re-fetch, it is 206 with Content-Range
\* "bytes a-b/S", Content-Length b-a+1 and Accept-Ranges: bytes.
C10_RangeValidation ==
    contentLength > 0 =>
        \A a \in RangeNumbers, b \in RangeNumbers \cup {-1} :
            IsRangeOf(a, b) =>
                /\ Unsatisfiable(a, b, contentLength)
                      <=> (pc = "done" /\ result.status = 416)
                /\ Unsatisfiable(a, b, contentLength) => fetchLog[Len(fetchLog)].method = "HEAD"
                /\ pc = "done" /\ RangeHonoured =>
                      /\ result.status = 206
                      /\ result.contentRange =
                            <<"b","y","t","e","s"," ">> \o NumToString(a) \o sDash
                              \o NumToString(LastByte(b, contentLength))
                              \o sSlash \o NumToString(contentLength)
                      /\ result.contentLength =
                            NumToString(LastByte(b, contentLength) - a + 1)
                      /\ result.acceptRanges = "bytes"

\* C10 witness: bytes=100-199 of a 1000-byte object answered with 206,
\* "bytes 100-199/1000" and length 100.
C10_Witness ==
    /\ pc = "done"
    /\ contentLength = 1000
    /\ rangeHeader = <<"b","y","t","e","s","=","1","0","0","-","1","9","9">>
    /\ RangeHonoured
    /\ result.status = 206
    /\ result.contentRange = <<"b","y","t","e","s"," ","1","0","0","-","1","9","9","/","1","0","0","0">>
    /\ result.contentLength = <<"1","0","0">>


(***************************************************************************)
(* Failures, statuses and headers.                                         *)
(***************************************************************************)

\* C11: whenever the site key has no registered CID the request is answered
\* with status 500 and a plain-text body that holds the site key; nothing
\* is fetched and no content is served.  Read for the requests that reach
\* content resolution: a redirect of a stored rule is not counted.
C11_NoCidIsError ==
    pc = "done" /\ HandledHere /\ siteCid = NoValue /\ ~Rejected /\ ~Redirected =>
        /\ result.status = 500
        /\ result.contentType = sTextPlain
        /\ Includes(result.body, SiteKey)
        /\ fetchLog = <<>>

\* The responses the handler makes itself, not those of the SSL, admin and
\* tenant API handlers it hands a request to.
AnsweredHere == pc = "done" /\ result.kind \notin {"ssl", "admin", "api"}

EnumeratedStatuses == {200, 206, 404, 416, 500}

RuleStatus ==
    IF result.kind = "redirect" THEN {ExpectedStatus(redirectsArray[result.rule])}
    ELSE {}

\* C12 as stated: every response has a status among 200, 206, the status of
\* the matched redirect rule, 404, 416 and 500; no status of the gateway
\* other than these reaches the caller.
C12_StatusEnumerated ==
    AnsweredHere => result.status \in EnumeratedStatuses \cup RuleStatus

\* The request to the gateway whose answer a full-content response passes on.
ServedFetch == fetchLog[Len(fetchLog)]

\* C12 amended: a redirect has the status of its rule (301 when unset), a
\* blocked extension and a custom 404 page have 404, a failure has 500, the
\* range path answers 200, 206, 404 or 416, and a full-content response has
\* the status the gateway gave for the object served: a success status of
\* the candidate accepted or, when every candidate failed, whatever status
\* the fetch of the root of the snapshot returned.
C12_StatusSurface ==
    AnsweredHere =>
        /\ result.kind = "redirect" => result.status \in RuleStatus
        /\ result.kind \in {"blocked", "custom404"} => result.status = 404
        /\ result.kind = "error" => result.status = 500
        /\ result.kind = "range" => result.status \in {200, 206, 404, 416}
        /\ result.kind = "content" =>
              /\ fetchLog # <<>>
              /\ result.status = ServedFetch.status
              /\ \/ ServedFetch.via = "candidate" /\ result.status \in 200..299
                 \/ ServedFetch.via = "root"
        /\ result.kind \in {"redirect", "blocked", "custom404", "error", "range", "content"}

\* C12 witness: every candidate failed, the root of the snapshot answered
\* 502 and the caller received 502.
C12_Witness ==
    /\ AnsweredHere
    /\ result.kind = "content"
    /\ ServedFetch.via = "root"
    /\ ServedFetch.status = 502
    /\ result.status = 502

\* A response that carries content: full content, partial or whole content
\* of the range path, the custom 404 page.
ContentResponse ==
    /\ pc = "done"
    /\ \/ result.kind \in {"content", "custom404"}
       \/ result.kind = "range" /\ result.status \in {200, 206}

\* C13: every content response carries Content-Type,
\* Access-Control-Allow-Origin: *, Cache-Control: public, max-age=3600,
\* orb-cid with the CID the content was resolved with, and orb-contract.
C13_ContentHeaders ==
    ContentResponse =>
        /\ result.contentType # NoValue
        /\ result.allowOrigin = "*"
        /\ result.cacheControl = "public, max-age=3600"
        /\ result.orbCid = cid
        /\ result.orbContract = Contract

\* The path ends in ".php", in any case of the letters.
EndsInPhp(p) ==
    /\ Len(p) >= 4
    /\ p[Len(p) - 3] = "."
    /\ p[Len(p) - 2] \in {"p", "P"}
    /\ p[Len(p) - 1] \in {"h", "H"}
    /\ p[Len(p)] \in {"p", "P"}

\* The answer of the block: 404, cached for a day, with nothing read from
\* the registry and nothing asked of the gateway.
BlockedAnswer ==
    /\ result.kind = "blocked"
    /\ result.status = 404
    /\ result.cacheControl = "public, max-age=86400"
    /\ fetchLog = <<>>
    /\ redirectsArray = <<>>
    /\ cid = NoValue

\* C14 as stated: every request whose path ends in ".php" (in any case) is
\* answered with 404 and Cache-Control: public, max-age=86400 before any
\* registry lookup or request to the gateway, whatever the rest of the path.
C14_BlockedAsStated ==
    EndsInPhp(pathName) =>
        /\ pc \in {"start", "done"}
        /\ pc = "done" => BlockedAnswer

\* The paths handed to the SSL challenge handler and to the admin handler
\* before the extension is looked at.
HandedOn(p) ==
    \/ StartsWith(p, <<"/",".","w","e","l","l","-","k","n","o","w","n","/">>) /\ ~Includes(p, <<"f","a","r","c","a","s","t","e","r",".","j","s","o","n">>)
    \/ StartsWith(p, <<"/","a","d","m","i","n","/">>)

\* C14 amended: the same for the paths that are not handed to the SSL
\* challenge handler (/.well-known/ without farcaster.json) or to the admin
\* handler (/admin/); those are handed on whatever their extension.
C14_BlockedUnlessHandedOn ==
    /\ EndsInPhp(pathName) /\ ~HandedOn(pathName) =>
          /\ pc \in {"start", "done"}
          /\ pc = "done" => BlockedAnswer
    /\ EndsInPhp(pathName) /\ HandedOn(pathName) /\ pc = "done" =>
          result.kind \in {"ssl", "admin"}

\* C14 witness: /x.PHP was refused.
C14_Witness ==
    /\ pc = "done"
    /\ pathName = <<"/","x",".","P","H","P">>
    /\ BlockedAnswer

\* The CID the claim gives: the version the request names when the gateway
\* confirms it, the site's registered CID otherwise.
ExpectedCid ==
    IF versionCid # NoValue /\ versionCid \in GatewayCids THEN versionCid ELSE siteCid

\* C15: the content is fetched with the version the request names if and
\* only if the parameter is present and containsCID confirmed it; otherwise
\* with the site's registered CID, and the request is served as usual, not
\* answered with an error because the version was refused.
C15_PinnedOnlyWhenValidated ==
    /\ cid # NoValue =>
          /\ cid = ExpectedCid
          /\ isUsingVersionCid <=> (versionCid # NoValue /\ versionCid \in GatewayCids)
    /\ \A k \in 1..Len(fetchLog) :
          StartsWith(fetchLog[k].url, GatewayConvert(ExpectedCid))
    /\ /\ pc = "done"
       /\ versionCid # NoValue /\ versionCid \notin GatewayCids
       /\ siteCid # NoValue /\ cid # NoValue
       /\ referrer = NoValue
       /\ ~Rejected
       => /\ result.kind \in {"content", "custom404", "range"}
          /\ result.orbCid = siteCid

\* C15 witness: a version the gateway does not hold was named, and the
\* page was served from the site's registered CID.
C15_Witness ==
    /\ pc = "done"
    /\ versionCid = UnknownCid
    /\ siteCid = SiteCid
    /\ result.kind = "content"
    /\ result.status = 200
    /\ result.orbCid = SiteCid
    /\ StartsWith(fetchLog[1].url, GatewayConvert(SiteCid))

\* String(error) of the failures of the pipeline.
Failures ==
    {<<"S","y","n","t","a","x","E","r","r","o","r">>, <<"T","y","p","e","E","r","r","o","r">>, <<"T","y","p","e","E","r","r","o","r",":"," ","I","n","v","a","l","i","d"," ","U","R","L">>, sRejection,
     <<"E","r","r","o","r",":"," ","F","a","i","l","e","d"," ","t","o"," ","f","e","t","c","h"," ","s","i","t","e"," ","d","a","t","a"," ","f","o","r"," ","s","i","t","e","K","e","y",":"," ">> \o SiteKey}

\* C16: every request has exactly one response, and a failure anywhere in
\* the pipeline (a Referer that is not a URL, rules that are not JSON, a
\* rejected request to the gateway, a failing registry or validation call)
\* becomes a 500 response whose text/plain body is the stringified error and
\* nothing else.
C16_FailuresBecome500 ==
    /\ pc = "done" <=> result # NoResult
    /\ result.kind = "error" =>
          \E m \in Failures :
              result = [NoResult EXCEPT !.kind = "error", !.status = 500,
                                        !.contentType = <<"t","e","x","t","/","p","l","a","i","n">>,
                                        !.body = <<"E","r","r","o","r",":"," ">> \o m]
    /\ pc = "done" /\ HandledHere /\ plan # "free" /\ redirectsPlain.kind = "badjson"
          => result.kind = "error"
    /\ pc = "done" /\ cid # NoValue /\ referrer # NoValue /\ ~ParseUrl(referrer).ok
          => result.kind = "error"

\* C16 witness: a request to the gateway was rejected after the first
\* candidate had failed, and the answer is the 500 of the catch block.
C16_Witness ==
    /\ pc = "done"
    /\ Len(fetchLog) = 1
    /\ result = ErrorResult(sRejection)
    /\ result.status = 500

(***************************************************************************)
(* Redirect loops, the reserved rule and the fallbacks.                    *)
(***************************************************************************)

\* C17: a single rule cannot loop: for a site with one rule whose
\* destination is on the host asked, a client that follows the Location
\* receives a response that is not a redirect after at most one redirect.
C17_NoRedirectLoop ==
    pc = "done" /\ Len(StoredRuleList) = 1 /\ hops >= 1 /\ ~Rejected =>
        result.kind # "redirect"

\* The requests of the candidate phase: the candidate keys and, for a
\* ranged media request, the requests of the range path.
IsCandidateFetch(entry) == entry.via \in {"candidate", "range"}

\* C18: a rule whose source is the reserved value "404" never produces a
\* redirect, whatever the request path ("/404" included); it is looked at
\* only after every candidate has failed.
C18_ReservedRuleNeverRedirects ==
    /\ Redirected => redirectsArray[result.rule].source # <<"4","0","4">>
    /\ \A k \in 1..Len(fetchLog) :
          fetchLog[k].via = "custom404" =>
              /\ k > 1
              /\ \A j \in 1..(k - 1) :
                    IsCandidateFetch(fetchLog[j]) /\ fetchLog[j].status \notin 200..299

\* Every candidate of the request was asked for and failed.
AllCandidatesFailed ==
    /\ \E k \in 1..Len(fetchLog) : IsCandidateFetch(fetchLog[k])
    /\ \A k \in 1..Len(fetchLog) :
          IsCandidateFetch(fetchLog[k]) => fetchLog[k].status \notin 200..299
    /\ fetchLog[1].via = "candidate" => CandidatesExhausted

\* The first rule of the site's list whose source is "404", 0 if none.
Stored404Rule ==
    IF \E i \in 1..Len(StoredRuleList) : StoredRuleList[i].source = <<"4","0","4">>
    THEN CHOOSE i \in 1..Len(StoredRuleList) :
            /\ StoredRuleList[i].source = <<"4","0","4">>
            /\ \A j \in 1..(i - 1) : StoredRuleList[j].source # <<"4","0","4">>
    ELSE 0

\* The key of the page a "404" rule names: its destination without the
\* leading slash, with ".html".
NotFoundKey(r) ==
    (IF r.destination[1] = "/" THEN SubSeq(r.destination, 2, Len(r.destination))
     ELSE r.destination) \o <<".","h","t","m","l">>

\* The gateway refused the page of the "404" rule.
PageRefused ==
    \E k \in 1..Len(fetchLog) :
        fetchLog[k].via = "custom404" /\ fetchLog[k].status \notin 200..299

RootFetched == \E k \in 1..Len(fetchLog) : fetchLog[k].via = "root"

\* The page of the "404" rule was served: its body, status 404, and the
\* root of the snapshot was not asked for.
Custom404Served ==
    /\ result.kind = "custom404"
    /\ result.status = 404
    /\ result.body = storedDoc
    /\ ~RootFetched

RangedMediaRequest ==
    rangeHeader # NoValue /\ IsMediaFile(cleanPath) /\ pathName # <<"/">>

FurtherFetches == {k \in 1..Len(fetchLog) : ~IsCandidateFetch(fetchLog[k])}

CandidateEntries == SelectSeq(fetchLog, LAMBDA entry : entry.via = "candidate")

\* C21: the candidate keys are asked for one at a time, in the order of the
\* candidate list, and the first success ends the fetching: a candidate
\* request answered with a success status is the last request of the log,
\* and the response of a request not cut short by a rejected call is built
\* from it (its status, its body as received or after the HTML pass).
C21_StopAtFirstSuccess ==
    /\ \A k \in 1..Len(CandidateEntries) :
          /\ fetchLog[k] = CandidateEntries[k]
          /\ k <= Len(PathCandidates(pathName, cleanPath))
          /\ fetchLog[k].url = GatewayConvert(cid) \o <<"/">>
                                  \o PathCandidates(pathName, cleanPath)[k]
    /\ \A k \in 1..Len(fetchLog) :
          fetchLog[k].via = "candidate" /\ fetchLog[k].status \in 200..299 =>
              /\ k = Len(fetchLog)
              /\ \A j \in 1..(k - 1) :
                    fetchLog[j].via = "candidate" /\ fetchLog[j].status \notin 200..299
              /\ pc = "done" /\ ~Rejected =>
                    /\ result.kind = "content"
                    /\ result.status = fetchLog[k].status
                    /\ response.url = fetchLog[k].url
                    /\ result.body \in
                          {storedDoc,
                           LinkRewriter(storedDoc, pathName, protocol, OriginalHost,
                                        isUsingVersionCid, versionCid)}

\* C21 witness: /a, a/index.html refused, a.html delivered and served; no
\* request after it.
C21_Witness ==
    /\ pc = "done"
    /\ pathName = <<"/","a">>
    /\ result.kind = "content"
    /\ Len(fetchLog) = 2
    /\ fetchLog[1].status = 404
    /\ fetchLog[2].url = GatewayConvert(SiteCid) \o <<"/","a",".","h","t","m","l">>
    /\ fetchLog[2].status = 200
    /\ result.status = 200

\* The requests of the log sent from one place.
FetchesVia(via) == {k \in 1..Len(fetchLog) : fetchLog[k].via = via}

\* The extension of a key, in lower case: what follows its last dot.
ExtensionOf(key) ==
    IF LastIndexOf(key, <<".">>) = 0 THEN <<>>
    ELSE ToLowerCase(SubSeq(key, LastIndexOf(key, <<".">>) + 1, Len(key)))

\* The key names an audio or video file.
HasMediaExtension(key) ==
    ExtensionOf(key) \in {<<"m","p","4">>, <<"w","e","b","m">>, <<"o","g","g">>, <<"m","o","v">>, <<"a","v","i">>, <<"m","k","v">>,
                          <<"m","p","3">>, <<"w","a","v">>, <<"f","l","a","c">>, <<"a","a","c">>, <<"m","4","a">>}

\* A request the range path answers: a Range header and a key with an
\* audio or video extension.
RangedMedia ==
    /\ rangeHeader # NoValue
    /\ pathName # <<"/">>
    /\ HasMediaExtension(SliceFrom(pathName, 1))

\* Two GET requests of the log for the same URL.
FetchedTwice(j, k) ==
    /\ j < k
    /\ fetchLog[j].method = "GET" /\ fetchLog[k].method = "GET"
    /\ fetchLog[j].url = fetchLog[k].url

\* C22 as stated: at most three content fetches for one request; for a
\* ranged media request at most one HEAD probe and one ranged re-fetch; no
\* object is fetched twice.
C22_BoundAsStated ==
    /\ Cardinality({k \in 1..Len(fetchLog) : fetchLog[k].via # "range"}) <= 3
    /\ Cardinality({k \in FetchesVia("range") : fetchLog[k].method = "HEAD"}) <= 1
    /\ Cardinality({k \in FetchesVia("range") : fetchLog[k].method = "GET"}) <= 1
    /\ \A j, k \in 1..Len(fetchLog) : ~FetchedTwice(j, k)

\* C22 amended: a request that is not a ranged media request issues at most
\* two candidate fetches, then at most one fetch of the page of a "404" rule
\* and at most one fetch of the root of the snapshot, four in all, and asks
\* for no URL twice except for the page of the "404" rule when it is also a
\* candidate; a ranged media request issues one HEAD probe first, then at
\* most one ranged GET and at most one plain GET of the same object, three
\* in all, and nothing else.
C22_BoundedFetches ==
    /\ RangedMedia =>
          /\ \A k \in 1..Len(fetchLog) :
                /\ fetchLog[k].via = "range"
                /\ fetchLog[k].url = GatewayConvert(cid) \o pathName
                /\ fetchLog[k].method = "HEAD" <=> k = 1
          /\ Cardinality({k \in 1..Len(fetchLog) : fetchLog[k].range # NoValue}) <= 1
          /\ Cardinality({k \in 1..Len(fetchLog) :
                fetchLog[k].method = "GET" /\ fetchLog[k].range = NoValue}) <= 1
          /\ Len(fetchLog) <= 3
    /\ ~RangedMedia =>
          /\ FetchesVia("range") = {}
          /\ Cardinality(FetchesVia("candidate")) <= 2
          /\ Cardinality(FetchesVia("custom404")) <= 1
          /\ Cardinality(FetchesVia("root")) <= 1
          /\ Len(fetchLog) <= 4
          /\ \A j, k \in 1..Len(fetchLog) :
                FetchedTwice(j, k) =>
                    fetchLog[j].via = "candidate" /\ fetchLog[k].via = "custom404"

\* C22 witness: four content fetches for one request (two candidates, the
\* page of the "404" rule, the root), and, for a ranged media request, the
\* HEAD probe, the ranged GET and the plain GET of the same object.
C22_Witness ==
    /\ pc = "done"
    /\ \/ /\ ~RangedMedia
          /\ Len(fetchLog) = 4
          /\ fetchLog[3].via = "custom404" /\ fetchLog[4].via = "root"
       \/ /\ RangedMedia
          /\ Len(fetchLog) = 3
          /\ fetchLog[2].range # NoValue /\ fetchLog[3].range = NoValue

(***************************************************************************)
(* The range path: degradation and the paths it does not apply to.         *)
(***************************************************************************)

\* The answers of the gateway on the range path: to the HEAD probe and to
\* the ranged re-fetch (0 when it was not sent).
ProbeStatus == fetchLog[1].status

RangedStatus ==
    IF \E k \in 1..Len(fetchLog) : fetchLog[k].range # NoValue
    THEN fetchLog[CHOOSE k \in 1..Len(fetchLog) : fetchLog[k].range # NoValue].status
    ELSE 0

\* The whole object with status 200 and Accept-Ranges: bytes.
FullObjectResponse ==
    /\ result.status = 200
    /\ result.acceptRanges = "bytes"
    /\ result.contentRange = NoValue
    /\ result.body = <<"f","u","l","l">>

\* C23: the range path degrades instead of erroring: a failed probe gives
\* 404; an unknown size, or a ranged re-fetch answered with any status other
\* than 206 (a 200 with the whole object, a failure), gives the whole object
\* with status 200 and Accept-Ranges: bytes; a 206 is emitted only when the
\* gateway answered the ranged re-fetch with 206.
C23_RangeDegrades ==
    pc = "done" /\ result.kind = "range" =>
        /\ ProbeStatus \notin 200..299 => result.status = 404
        /\ ProbeStatus \in 200..299 /\ contentLength = 0 => FullObjectResponse
        /\ RangedStatus # 0 /\ RangedStatus # 206 => FullObjectResponse
        /\ result.status = 206 => RangedStatus = 206

RangePlaces == {"rangeHead", "rangeNoLength", "rangeFetch", "rangeFallback"}

\* The response the handler builds from the object it accepted, the Range
\* header playing no part.
PlainContentResponse ==
    /\ result.status = response.status
    /\ result.acceptRanges = ""
    /\ result.contentRange = NoValue
    /\ result.contentLength = NoValue
    /\ result.body \in {storedDoc,
                        LinkRewriter(storedDoc, pathName, protocol, OriginalHost,
                                     isUsingVersionCid, versionCid)}

\* C24: the Range header plays a part only for a key with one of the audio
\* and video extensions: for every other path (the root, a path without an
\* extension, any other extension) asked for with a Range header the range
\* path is never entered, the requests to the gateway are the plain
\* candidate, "404" page and root requests, none carrying a Range header,
\* and the response is the one built without the header: never 206 or 416,
\* no Content-Range, no Accept-Ranges.
C24_RangeIgnoredElsewhere ==
    rangeHeader # NoValue /\ ~HasMediaExtension(SliceFrom(pathName, 1)) =>
        /\ pc \notin RangePlaces
        /\ \A k \in 1..Len(fetchLog) :
              /\ fetchLog[k].via \in {"candidate", "custom404", "root"}
              /\ fetchLog[k].method = "GET"
              /\ fetchLog[k].range = NoValue
        /\ pc = "done" =>
              /\ result.kind # "range"
              /\ result.status \notin {206, 416}
              /\ result.kind = "content" => PlainContentResponse

\* C24 witness: /a.a asked for with Range: bytes=0-1 and answered with the
\* whole object after one plain fetch.
C24_Witness ==
    /\ pc = "done"
    /\ pathName = <<"/","a",".","a">>
    /\ rangeHeader = <<"b","y","t","e","s","=","0","-","1">>
    /\ result.kind = "content"
    /\ result.status = 200
    /\ Len(fetchLog) = 1
    /\ fetchLog[1].url = GatewayConvert(SiteCid) \o <<"/","a",".","a">>

(***************************************************************************)
(* Malformed redirect rules.                                               *)
(***************************************************************************)

\* A rule without a destination, or whose destination is an http(s) URL
\* that cannot be parsed.
Malformed(r) == ~HasNormalizedDestination(r)

\* The rule that would answer the request if the malformed ones were not
\* in the list (the first one that matches the path and is not passed over
\* by the self-redirect guard): its index in the list, 0 if none.
FirstWellFormedMatch ==
    IF \E i \in 1..Len(StoredRuleList) :
          ~Malformed(StoredRuleList[i]) /\ MatchesUnguarded(StoredRuleList[i], pathName)
    THEN CHOOSE i \in 1..Len(StoredRuleList) :
            /\ ~Malformed(StoredRuleList[i]) /\ MatchesUnguarded(StoredRuleList[i], pathName)
            /\ \A j \in 1..(i - 1) :
                  ~(~Malformed(StoredRuleList[j]) /\ MatchesUnguarded(StoredRuleList[j], pathName))
    ELSE 0

\* C25: a malformed rule never fails the request and never matches: no
\* redirect comes from a rule whose destination is missing or cannot be
\* parsed, the rules after it are still evaluated, and the request is not
\* answered with 500 because of it.
C25_MalformedRuleSkipped ==
    pc = "done" /\ ~Rejected /\ plan # "free" /\ HandledHere
        /\ redirectsPlain.kind = "json" /\ hops = 0 =>
        /\ Redirected => ~Malformed(redirectsArray[result.rule])
        /\ FirstWellFormedMatch # 0 =>
              Redirected /\ result.rule = FirstWellFormedMatch
        /\ FirstWellFormedMatch = 0 =>
              result.kind # "redirect" /\ result # ErrorResult(<<"T","y","p","e","E","r","r","o","r">>)

(***************************************************************************)
(* The base element and the payloads that are not HTML.                    *)
(***************************************************************************)

\* An opening tag of the element `name` begins at position i of the text,
\* in any spelling, with or without attributes.
TagAt(text, name, i) ==
    /\ i + Len(name) + 1 <= Len(text)
    /\ text[i] = "<"
    /\ \A k \in 1..Len(name) : LowerChar(text[i + k]) = name[k]
    /\ text[i + Len(name) + 1] \in {" ", ">", "/", "\n"}

BaseElements(text) == {i \in 1..Len(text) : TagAt(text, <<"b","a","s","e">>, i)}

HeadTags(text) == {i \in 1..Len(text) : TagAt(text, <<"h","e","a","d">>, i)}

\* The position of the ">" that closes the first head tag of the text.
HeadTagEnd(text) ==
    LET at == CHOOSE i \in HeadTags(text) : \A j \in HeadTags(text) : i <= j
    IN  at + FirstOf(SubSeq(text, at, Len(text)), {">"}) - 1

\* The directory context of a request path: the path with a closing "/" for
\* a path without an extension, the path cut after its last "/" for a path
\* with an extension, and empty when that is the root directory "/".
PathDirectory(p) ==
    IF \E i \in 1..Len(p) : p[i] = "."
    THEN SubSeq(p, 1, CHOOSE i \in 1..Len(p) :
                         p[i] = "/" /\ \A j \in (i + 1)..Len(p) : p[j] # "/")
    ELSE IF p[Len(p)] = "/" THEN p
    ELSE p \o <<"/">>

DirectoryContext(p) == IF PathDirectory(p) = <<"/">> THEN <<>> ELSE PathDirectory(p)

ExpectedBaseTag ==
    <<"<","b","a","s","e"," ","h","r","e","f","=","\"">> \o protocol \o <<"/","/">> \o OriginalHost \o DirectoryContext(pathName) \o <<"\"",">">>

\* The expected base element stands at position i of the text.
BaseTagAt(text, i) == StartsWithAt(text, ExpectedBaseTag, i)

\* C26: for every HTML response: a document without a base element is
\* served with exactly one, with href = scheme//original host + directory
\* context of the request path, placed just after the opening head tag (in
\* any spelling, with or without attributes) when the document has one and
\* at the very start otherwise; a document that has a base element is
\* given none.
C26_BaseInjected ==
    ServedHtml =>
        /\ BaseElements(storedDoc) = {} =>
              /\ Cardinality(BaseElements(result.body)) = 1
              /\ IF HeadTags(storedDoc) # {}
                 THEN \/ BaseTagAt(result.body, HeadTagEnd(result.body) + 1)
                      \/ /\ StartsWithAt(result.body, sNewline, HeadTagEnd(result.body) + 1)
                         /\ BaseTagAt(result.body, HeadTagEnd(result.body) + 2)
                 ELSE BaseTagAt(result.body, 1)
        /\ BaseElements(storedDoc) # {} =>
              Cardinality(BaseElements(result.body)) = Cardinality(BaseElements(storedDoc))

\* The gateway did not declare the object served to be HTML: another
\* Content-Type, or none.
NotDeclaredHtml == ~Includes(response.contentType, <<"t","e","x","t","/","h","t","m","l">>)

\* C27: a payload that is not HTML passes through unmodified: when the
\* gateway's response does not declare HTML (another Content-Type, or no
\* Content-Type header at all) the body sent is the gateway's body, byte
\* for byte: no base element is added and no link is rewritten.
C27_NonHtmlPassThrough ==
    pc = "done" /\ result.kind = "content" /\ NotDeclaredHtml =>
        result.body = storedDoc

(***************************************************************************)
(* The Referer header.                                                     *)
(***************************************************************************)

\* No Referer header, or one that is a URL.
WellFormedReferer == referrer = NoValue \/ ParseUrl(referrer).ok

\* The directory of the referring page, without its leading slash.
ReferringDirectory ==
    LET dir == RefererDir(ParseUrl(referrer).pathname)
    IN  IF StartsWith(dir, <<"/">>) THEN SliceFrom(dir, 1) ELSE dir

\* C30: the Referer header plays no part in resolving a rooted path: for a
\* request path that begins with "/" and a Referer that is absent or well
\* formed, the key is the path without its leading slash, every candidate
\* request asks for one of the keys the path alone gives, the request is
\* not failed by the Referer, and the content response is built from the
\* object fetched; the directory of the referring page is put before the
\* key only for a path without a leading slash.
C30_RefererIgnored ==
    WellFormedReferer /\ StartsWith(pathName, <<"/">>) =>
        /\ fetchLog # <<>> => cleanPath = SliceFrom(pathName, 1)
        /\ \A k \in 1..Len(fetchLog) :
              fetchLog[k].via \in {"candidate", "range"} =>
                  \E c \in 1..Len(ExpectedCandidates(pathName)) :
                      fetchLog[k].url = GatewayConvert(cid) \o <<"/">>
                                            \o ExpectedCandidates(pathName)[c]
        /\ result # ErrorResult(<<"T","y","p","e","E","r","r","o","r",":"," ","I","n","v","a","l","i","d"," ","U","R","L">>)
        /\ pc = "done" /\ result.kind = "content" =>
              /\ result.status = response.status
              /\ result.orbCid = cid
              /\ result.body \in
                    {storedDoc,
                     LinkRewriter(storedDoc, pathName, protocol, OriginalHost,
                                  isUsingVersionCid, versionCid)}
        /\ referrer # NoValue =>
              /\ CleanPath(pathName, TRUE, ParseUrl(referrer).pathname)
                    = CleanPath(pathName, FALSE, <<>>)
              /\ ParseUrl(referrer).pathname # <<"/">> =>
                    CleanPath(<<"a",".","a">>, TRUE, ParseUrl(referrer).pathname)
                        = ReferringDirectory \o <<"a",".","a">>

\* C30 witness: /a/a.a asked for from the page https://h/d/p.html and served
\* from the key a/a.a.
C30_Witness ==
    /\ pc = "done"
    /\ pathName = <<"/","a","/","a",".","a">>
    /\ referrer = <<"h","t","t","p","s",":","/","/","h","/","d","/","p",".","h","t","m","l">>
    /\ result.kind = "content"
    /\ Len(fetchLog) = 1
    /\ fetchLog[1].url = GatewayConvert(SiteCid) \o <<"/","a","/","a",".","a">>
    /\ fetchLog[1].status = 200

(***************************************************************************)
(* The analytics side call and its rate limiter.                           *)
(***************************************************************************)

\* The next step of the handler, up to the building of the Response, when
\* none of the calls it awaits fails.
HandlerStep ==
    \/ SslChallenge \/ AdminRequest \/ BlockPhp \/ LookupSite
    \/ ApiRequest \/ CheckRedirects \/ ResolveCid \/ BuildCleanPath
    \/ FetchRootIndex \/ FetchDirIndex \/ FetchDotHtml \/ FetchFile
    \/ RangeDispatch \/ RangeHead \/ RangeNoLength \/ RangeFetch \/ RangeFallback
    \/ Custom404 \/ LastResort

\* C28: the tracking call can neither change nor delay the outcome of the
\* main path: whatever the state of the call (not yet answered by the rate
\* limiter, rate limited, failed, sent, or never completing) the handler's
\* next step can be taken, every step of the call leaves the handler's
\* variables and its response as they are, and the handler's steps after
\* the call is made leave the call and the counter as they are.
C28_TrackingBesideHandler ==
    /\ [](pc \notin {"respond", "done"} => ENABLED HandlerStep)
    /\ [][TrackerNext => UNCHANGED handler]_vars
    /\ [][pc # "start" /\ handler' # handler => UNCHANGED analytics]_vars

\* C28 witness: a page served with status 200 while the tracking call of
\* the request has not been answered by the rate limiter.
C28_Witness ==
    /\ pc = "done"
    /\ result.kind = "content"
    /\ result.status = 200
    /\ trackers[Call].at = "get"

\* The calls checkRateLimit answered true after writing the count.
Admitted == {t \in Trackers : trackers[t].canTrack = "yes"}

\* C29: the rate limiter admits at most 3 page views per key: whatever the
\* interleaving of the requests that share the key, checkRateLimit returns
\* true to at most 3 of them while the store answers, the stored count
\* never exceeds 3, and a call the store fails is let through (fail open).
C29_AtMostMaxHits ==
    /\ Cardinality(Admitted) <= MaxHits
    /\ rateLimit <= MaxHits
    /\ \A t \in Trackers :
          trackers[t].canTrack = "failOpen" => trackers[t].at \in {"post", "sent", "failed"}

=============================================================================
